---- MODULE Spec2Model ----
(***************************************************************************)
(* Model of the analytics scripts of the course-mentorship platform:       *)
(*   backend/analytics/course_completion_analysis.py                       *)
(*   backend/analytics/student_performance_analysis.py                     *)
(*   backend/analytics/mentor_effectiveness_analysis.py                    *)
(*   backend/analytics/dashboard.py (mentor effectiveness page)            *)
(*                                                                         *)
(* Each script is a state machine over its own record variable: the        *)
(* snapshot `df` it was handed, the position `pc` of main(), and the       *)
(* values its calculators returned.  Floating point values are modelled    *)
(* exactly: ratios as fractions [num, den], values that the code rounds to *)
(* two decimals as integers counting hundredths.  NaN, +inf and NaT are    *)
(* values of their own, outside the numbers.                               *)
(***************************************************************************)
EXTENDS Integers, Sequences, FiniteSets, TLC

VARIABLES course_completion, student_performance, mentor_effectiveness, dashboard, app

vars == <<course_completion, student_performance, mentor_effectiveness, dashboard, app>>

(***************************************************************************)
(* Bounds of the model.                                                    *)
(***************************************************************************)
MaxEnrollmentRows == 3
\* Calls made when the functions of a script are called one by one.
MaxCalls == 2
MaxSubmissionRows == 3
MaxCourseRows == 2
\* Courses of one mentor in the application's store.
MaxStoreCourses == 2
\* Students of a class-sized snapshot.
MaxStudents == 7
\* Largest module id a progress request names.
MaxModuleId == 3
\* Users registered at one instant (a bulk import) in the users table.
MaxBatch == 5

(***************************************************************************)
(* Values shared by the scripts.                                           *)
(***************************************************************************)
\* A script that is not the one being run.
Idle == [pc |-> "not_run"]

\* All sequences over S of length 0..n: the snapshots a fetch can return.
SeqsUpTo(S, n) == UNION {[1..k -> S] : k \in 0..n}

\* Sum of f over the positions of a sequence.
RECURSIVE SumSeq(_)
SumSeq(s) == IF s = <<>> THEN 0 ELSE Head(s) + SumSeq(Tail(s))

\* Python's None.
None == [k |-> "None"]

\* A float: a number, NaN or +inf.  Num(v) carries an integer v (a count, a
\* number of days, or a number of hundredths where the code rounds to 2).
NaN == [k |-> "nan"]
Inf == [k |-> "inf"]
Num(v) == [k |-> "num", v |-> v]
IsNum(x) == x.k = "num"

\* A pandas Series of numbers.
Series(values) == [k |-> "Series", values |-> values]

\* An exact fraction num/den, den > 0: the value of a float division.
Frac(n, d) == [num |-> n, den |-> d]
FracLeq(a, b) == a.num * b.den <= b.num * a.den
FracEq(a, b) == a.num * b.den = b.num * a.den

\* The keys of a frame in ascending order, as the frame lists them.
RECURSIVE SetToSeq(_)
SetToSeq(S) ==
    IF S = {} THEN <<>>
    ELSE LET x == CHOOSE y \in S : \A z \in S : y <= z
         IN  <<x>> \o SetToSeq(S \ {x})

\* sort_values(key, ascending=False) on the keys of a frame: larger
\* keys first, NaN last, rows with equal keys in frame order.
RECURSIVE InsertDesc(_, _, _)
InsertDesc(m, order, key) ==
    IF order = <<>> THEN <<m>>
    ELSE IF IsNum(key[m]) /\ (~IsNum(key[Head(order)]) \/ key[m].v > key[Head(order)].v)
         THEN <<m>> \o order
         ELSE <<Head(order)>> \o InsertDesc(m, Tail(order), key)

RECURSIVE SortDesc(_, _)
SortDesc(ms, key) ==
    IF ms = <<>> THEN <<>>
    ELSE InsertDesc(ms[Len(ms)], SortDesc(SubSeq(ms, 1, Len(ms) - 1), key), key)

\* .head(n)
head(s, n) == SubSeq(s, 1, IF Len(s) < n THEN Len(s) ELSE n)

(***************************************************************************)
(* course_completion_analysis.py                                           *)
(***************************************************************************)
\* A missing timestamp in a datetime column.
NaT == [nat |-> TRUE]

Timestamp(y, m, d, h) == [nat |-> FALSE, year |-> y, month |-> m, day |-> d, hour |-> h]

\* Days since 1970-01-01 of a calendar date (proleptic Gregorian), as
\* pd.to_datetime represents it.
DaysFromCivil(y, m, d) ==
    LET yy  == IF m <= 2 THEN y - 1 ELSE y
        era == yy \div 400
        yoe == yy - era * 400
        mp  == IF m > 2 THEN m - 3 ELSE m + 9
        doy == (153 * mp + 2) \div 5 + d - 1
        doe == yoe * 365 + yoe \div 4 - yoe \div 100 + doy
    IN  era * 146097 + doe - 719468

\* pd.to_datetime of a timestamp: hours since the epoch.
to_datetime(t) == DaysFromCivil(t.year, t.month, t.day) * 24 + t.hour

\* (pd.to_datetime(completion_date) - pd.to_datetime(enrollment_date)).dt.days:
\* the days component of the timedelta is the floor of the difference in days;
\* NaN when either timestamp is missing.
completion_time_days(row) ==
    IF row.completion_date.nat \/ row.enrollment_date.nat
    THEN NaN
    ELSE Num((to_datetime(row.completion_date) - to_datetime(row.enrollment_date)) \div 24)

EnrollRow(flag, e, c) == [is_completed |-> flag, enrollment_date |-> e, completion_date |-> c]

Jan01 == Timestamp(2024, 1, 1, 0)

\* The rows of get_completion_data used here: one row per enrollment of an
\* active course, and one row with missing enrollment columns for a course
\* nobody enrolled in (LEFT JOIN enrollments).
EnrollmentRows ==
    { EnrollRow("None", NaT, NaT),
      EnrollRow("False", Jan01, NaT),
      EnrollRow("True", Jan01, NaT),
      EnrollRow("True", Jan01, Timestamp(2023, 12, 1, 0)),
      EnrollRow("True", Timestamp(2024, 1, 1, 12), Jan01),
      EnrollRow("True", Jan01, Jan01),
      EnrollRow("True", Jan01, Timestamp(2024, 1, 31, 0)),
      EnrollRow("True", Jan01, Timestamp(2024, 12, 31, 0)),
      EnrollRow("True", Jan01, Timestamp(2024, 12, 31, 12)),
      EnrollRow("True", Jan01, Timestamp(2025, 1, 1, 0)) }

\* df[df['is_completed'] == True]
IsCompletedTrue(row) == row.is_completed = "True"
completed_rows(df) == SelectSeq(df, IsCompletedTrue)

\* df['is_completed'].sum(): True counts 1, False 0, a missing flag is skipped.
RECURSIVE is_completed_sum(_)
is_completed_sum(df) ==
    IF df = <<>> THEN 0
    ELSE (IF Head(df).is_completed = "True" THEN 1 ELSE 0) + is_completed_sum(Tail(df))

\* Variant: the denominator counts only the rows whose flag is present
\* (Series.count() instead of len).
FlagPresent(row) == row.is_completed # "None"
overall_completion_rate_counted(df) ==
    LET total_enrollments == Len(SelectSeq(df, FlagPresent))
        completed_enrollments == Len(completed_rows(df))
    IN  IF total_enrollments > 0
        THEN Frac(completed_enrollments * 100, total_enrollments)
        ELSE Frac(0, 1)

\* analyze_completion_rates: the overall completion rate it returns.
overall_completion_rate(df) ==
    LET total_enrollments == Len(df)
        completed_enrollments == Len(completed_rows(df))
    IN  IF total_enrollments > 0
        THEN Frac(completed_enrollments * 100, total_enrollments)
        ELSE Frac(0, 1)

\* generate_completion_report: report['overall_completion_rate'].
report_overall_completion_rate(df) ==
    IF Len(df) > 0 THEN Frac(is_completed_sum(df) * 100, Len(df)) ELSE Frac(0, 1)

\* Variant: strict upper bound, a duration of exactly 365 days is dropped.
InPlausibleRange_strict(days) == IsNum(days) /\ days.v >= 0 /\ days.v < 365

\* The outlier mask of analyze_time_to_completion; a comparison with NaN is False.
InPlausibleRange(days) == IsNum(days) /\ days.v >= 0 /\ days.v <= 365

HasPlausibleTime(row) == InPlausibleRange(completion_time_days(row))

\* The column completed_df['completion_time_days'] as a sequence of numbers.
days_column(rows) == [i \in 1..Len(rows) |-> completion_time_days(rows[i]).v]

\* Insertion of x into an ascending sequence; ascending sort.
RECURSIVE Insert(_, _)
Insert(x, s) ==
    IF s = <<>> THEN <<x>>
    ELSE IF x <= Head(s) THEN <<x>> \o s
    ELSE <<Head(s)>> \o Insert(x, Tail(s))

RECURSIVE SortAsc(_)
SortAsc(s) == IF s = <<>> THEN <<>> ELSE Insert(Head(s), SortAsc(Tail(s)))

\* Series.mean(), .median(), .min(), .max(): NaN on an empty series.
series_mean(s) == IF s = <<>> THEN NaN ELSE Frac(SumSeq(s), Len(s))
series_min(s) == IF s = <<>> THEN NaN ELSE Num(SortAsc(s)[1])
series_max(s) == IF s = <<>> THEN NaN ELSE Num(SortAsc(s)[Len(s)])
series_median(s) ==
    LET o == SortAsc(s)
        n == Len(s)
    IN  IF n = 0 THEN NaN
        ELSE IF n % 2 = 1 THEN Frac(o[(n + 1) \div 2], 1)
        ELSE Frac(o[n \div 2] + o[n \div 2 + 1], 2)

\* Variant: the filter also drops the slowest of the rows it kept.
time_filtered_rows_trimmed(df) ==
    LET kept == SelectSeq(completed_rows(df), HasPlausibleTime)
        slowest == series_max(days_column(kept))
        NotSlowest(row) == completion_time_days(row) # slowest
    IN  SelectSeq(kept, NotSlowest)

\* The time-to-completion filter: completed rows, then the [0, 365] mask.
time_filtered_rows(df) == SelectSeq(completed_rows(df), HasPlausibleTime)

\* Variant: no early return, the statistics are taken whatever was kept.
time_to_completion_unguarded(df) ==
    LET days == days_column(time_filtered_rows(df))
    IN  [returned |-> Series(days), printed |-> "statistics",
         stats |-> [mean |-> series_mean(days), median |-> series_median(days),
                    min |-> series_min(days), max |-> series_max(days)]]

\* analyze_time_to_completion(df): what it prints and returns.
time_to_completion(df) ==
    IF Len(completed_rows(df)) = 0
    THEN [returned |-> None, printed |-> "No completed enrollments found.",
          stats |-> None]
    ELSE LET days == days_column(time_filtered_rows(df))
         IN  [returned |-> Series(days), printed |-> "statistics",
              stats |-> [mean |-> series_mean(days), median |-> series_median(days),
                         min |-> series_min(days), max |-> series_max(days)]]

CompletionPcs == {"main", "analyze_completion_rates", "analyze_time_to_completion",
                  "create_completion_visualizations", "generate_completion_report",
                  "done"}

\* After the step at position at: the next position of main(), or "call" when
\* the function was called on its own.
CompletionNext(at) ==
    IF course_completion.pc = "call" THEN "call"
    ELSE CASE at = "analyze_completion_rates" -> "analyze_time_to_completion"
           [] at = "analyze_time_to_completion" -> "create_completion_visualizations"
           [] at = "create_completion_visualizations" -> "generate_completion_report"
           [] at = "generate_completion_report" -> "done"

CompletionAt(at) ==
    \/ course_completion.pc = at
    \/ course_completion.pc = "call" /\ course_completion.calls < MaxCalls

\* The script started as main(), or its functions imported and called one by
\* one, on a snapshot df.
InitCompletion ==
    /\ \E df \in SeqsUpTo(EnrollmentRows, MaxEnrollmentRows), entry \in {"main", "call"} :
          course_completion =
            [pc |-> entry, calls |-> 0, df |-> df, stdout |-> <<>>,
             completion_rate |-> None,
             time_to_completion |-> None, report |-> None, files |-> <<>>]
    /\ student_performance = Idle
    /\ mentor_effectiveness = Idle
    /\ dashboard = Idle
    /\ app = Idle

\* Variant: main() without the empty-snapshot check.
completion_main_unguarded ==
    /\ course_completion.pc = "main"
    /\ course_completion' = [course_completion EXCEPT !.pc = "analyze_completion_rates"]
    /\ UNCHANGED <<student_performance, mentor_effectiveness, dashboard, app>>

\* main(): the empty-snapshot check.
completion_main ==
    /\ course_completion.pc = "main"
    /\ IF Len(course_completion.df) = 0
       THEN course_completion' =
              [course_completion EXCEPT !.pc = "done",
                 !.stdout = Append(@, "No data found. Please check database connection and data.")]
       ELSE course_completion' = [course_completion EXCEPT !.pc = "analyze_completion_rates"]
    /\ UNCHANGED <<student_performance, mentor_effectiveness, dashboard, app>>

analyze_completion_rates ==
    /\ CompletionAt("analyze_completion_rates")
    /\ course_completion' =
         [course_completion EXCEPT
            !.pc = CompletionNext("analyze_completion_rates"), !.calls = @ + 1,
            !.completion_rate = overall_completion_rate(course_completion.df)]
    /\ UNCHANGED <<student_performance, mentor_effectiveness, dashboard, app>>

analyze_time_to_completion ==
    /\ CompletionAt("analyze_time_to_completion")
    /\ LET r == time_to_completion(course_completion.df)
       IN  course_completion' =
             [course_completion EXCEPT
                !.pc = CompletionNext("analyze_time_to_completion"), !.calls = @ + 1,
                !.stdout = Append(@, r.printed),
                !.time_to_completion = r]
    /\ UNCHANGED <<student_performance, mentor_effectiveness, dashboard, app>>

create_completion_visualizations ==
    /\ CompletionAt("create_completion_visualizations")
    /\ course_completion' =
         [course_completion EXCEPT
            !.pc = CompletionNext("create_completion_visualizations"), !.calls = @ + 1,
            !.files = Append(@, "course_completion_analysis.png")]
    /\ UNCHANGED <<student_performance, mentor_effectiveness, dashboard, app>>

generate_completion_report ==
    /\ CompletionAt("generate_completion_report")
    /\ course_completion' =
         [course_completion EXCEPT
            !.pc = CompletionNext("generate_completion_report"), !.calls = @ + 1,
            !.report = [total_enrollments |-> Len(course_completion.df),
                        overall_completion_rate |->
                          report_overall_completion_rate(course_completion.df)],
            !.files = Append(@, "completion_report.json")]
    /\ UNCHANGED <<student_performance, mentor_effectiveness, dashboard, app>>

NextCompletion ==
    \/ completion_main
    \/ analyze_completion_rates
    \/ analyze_time_to_completion
    \/ create_completion_visualizations
    \/ generate_completion_report

SpecCompletion == InitCompletion /\ [][NextCompletion]_vars

(***************************************************************************)
(* Properties of course_completion_analysis.py                             *)
(***************************************************************************)
\* The number of rows of df whose completion flag is true.
CompletedCount(df) == Cardinality({i \in 1..Len(df) : df[i].is_completed = "True"})

\* rate is 100 x completed / total, inside [0, 100], and 0 on an empty snapshot.
RateIsCompletedOverTotal(rate, df) ==
    /\ FracLeq(Frac(0, 1), rate)
    /\ FracLeq(rate, Frac(100, 1))
    /\ IF Len(df) = 0
       THEN FracEq(rate, Frac(0, 1))
       ELSE rate.num * Len(df) = 100 * CompletedCount(df) * rate.den

\* C1: for every enrollment snapshot (completed, not completed and missing
\* flags mixed, or no rows at all) the overall completion rate returned by
\* analyze_completion_rates and the one in the report of
\* generate_completion_report lie in [0,100] and equal
\* 100 x (rows with is_completed true) / (all rows), 0 for zero rows.
C1_OverallCompletionRate ==
    /\ course_completion.completion_rate # None =>
         RateIsCompletedOverTotal(course_completion.completion_rate, course_completion.df)
    /\ course_completion.report # None =>
         RateIsCompletedOverTotal(course_completion.report.overall_completion_rate,
                                  course_completion.df)

\* Both rates computed on a snapshot that mixes the three kinds of flag.
C1_Witness ==
    /\ course_completion.completion_rate # None
    /\ course_completion.report # None
    /\ \A flag \in {"True", "False", "None"} :
          \E i \in 1..Len(course_completion.df) : course_completion.df[i].is_completed = flag

\* The hours from enrollment to completion of a row with both timestamps.
HoursToComplete(row) == to_datetime(row.completion_date) - to_datetime(row.enrollment_date)

\* A row that may contribute: completed, both timestamps present, and a
\* duration whose whole days are in 0..365, that is 0 <= hours < 366 days.
Contributes(row) ==
    /\ row.is_completed = "True"
    /\ ~row.completion_date.nat
    /\ ~row.enrollment_date.nat
    /\ HoursToComplete(row) >= 0
    /\ HoursToComplete(row) < 366 * 24

\* C5: the statistics of analyze_time_to_completion are taken over exactly
\* the rows that are completed and whose whole-day duration is in 0..365:
\* rows with a negative duration, more than 365 days or no completion date
\* never contribute, durations 0 and 365 do; 2024-01-01 to 2024-01-31 counts
\* as 30 days, 2024-01-01 to 2023-12-01 is left out.
C5_TimeToCompletionFilter ==
    LET r  == course_completion.time_to_completion
        df == course_completion.df
        kept == SelectSeq(df, Contributes)
    IN  (r # None /\ r.returned # None) =>
          /\ Len(r.returned.values) = Len(kept)
          /\ \A k \in 1..Len(kept) :
                /\ r.returned.values[k] \in 0..365
                /\ r.returned.values[k] * 24 <= HoursToComplete(kept[k])
                /\ HoursToComplete(kept[k]) < (r.returned.values[k] + 1) * 24
          /\ r.stats.min = series_min(r.returned.values)
          /\ r.stats.max = series_max(r.returned.values)
          /\ r.stats.mean = series_mean(r.returned.values)
          /\ r.stats.median = series_median(r.returned.values)
          /\ (kept = <<EnrollRow("True", Jan01, Timestamp(2024, 1, 31, 0))>>
                => r.returned.values = <<30>>)
          /\ (\E i \in 1..Len(df) : df[i] = EnrollRow("True", Jan01, Jan01))
                => \E k \in 1..Len(kept) : r.returned.values[k] = 0
          /\ (\E i \in 1..Len(df) : df[i] = EnrollRow("True", Jan01, Timestamp(2024, 12, 31, 0)))
                => \E k \in 1..Len(kept) : r.returned.values[k] = 365
          /\ \A k \in 1..Len(kept) :
                /\ kept[k] # EnrollRow("True", Jan01, Timestamp(2023, 12, 1, 0))
                /\ kept[k] # EnrollRow("True", Jan01, Timestamp(2025, 1, 1, 0))
                /\ kept[k] # EnrollRow("True", Jan01, NaT)

\* The function has run on a snapshot holding a 30-day completion, a
\* completion dated before the enrollment and a completion without a date.
C5_Witness ==
    LET r  == course_completion.time_to_completion
        df == course_completion.df
    IN  /\ r # None
        /\ r.returned = Series(<<30>>)
        /\ \E i \in 1..Len(df) : df[i] = EnrollRow("True", Jan01, Timestamp(2023, 12, 1, 0))
        /\ \E i \in 1..Len(df) : df[i] = EnrollRow("True", Jan01, NaT)

\* C7: with zero completed enrollments analyze_time_to_completion prints
\* "No completed enrollments found." and returns nothing, and no mean,
\* median, min or max is computed.
C7_NoCompletedEnrollments ==
    LET r  == course_completion.time_to_completion
        df == course_completion.df
    IN  (r # None /\ CompletedCount(df) = 0) =>
          /\ r.printed = "No completed enrollments found."
          /\ r.returned = None
          /\ r.stats = None

\* The function has run on a non-empty snapshot without a completed row.
C7_Witness ==
    /\ course_completion.time_to_completion # None
    /\ Len(course_completion.df) > 0
    /\ CompletedCount(course_completion.df) = 0

(***************************************************************************)
(* student_performance_analysis.py                                         *)
(***************************************************************************)
\* n/d rounded to the nearest integer, a tie going to the even one
\* (DataFrame.round, numpy.round); n >= 0, d > 0.
RoundHalfEven(n, d) ==
    LET q == n \div d
        r == n % d
    IN  IF 2 * r < d THEN q
        ELSE IF 2 * r > d THEN q + 1
        ELSE IF q % 2 = 0 THEN q ELSE q + 1

\* .round(2) of the fraction n/d, in hundredths.
Round2(n, d) == RoundHalfEven(n * 100, d)

\* Float division of two counts as pandas does it on columns: 0/0 is NaN,
\* x/0 is inf, no exception is raised.
PandasDiv(n, d) == IF d # 0 THEN Frac(n, d) ELSE IF n = 0 THEN NaN ELSE Inf

\* (n / d * 100).round(2) on columns, in hundredths; NaN and inf stay.
PandasPercent2(n, d) == IF d # 0 THEN Num(Round2(n * 100, d)) ELSE PandasDiv(n, d)

SubmissionRow(e, g, late) ==
    [student_id |-> e.student_id, course_id |-> e.course_id,
     enrollment_date |-> e.enrollment_date, is_completed |-> e.is_completed,
     grade |-> g, is_late |-> late]

\* The enrollments of the snapshot: student 1 completed course 1 and is
\* still taking course 2, student 2 is taking course 1.
PerformanceEnrollments ==
    { [student_id |-> 1, course_id |-> 1, is_completed |-> TRUE,
       enrollment_date |-> Jan01],
      [student_id |-> 1, course_id |-> 2, is_completed |-> FALSE,
       enrollment_date |-> Timestamp(2024, 2, 10, 0)],
      [student_id |-> 2, course_id |-> 1, is_completed |-> FALSE,
       enrollment_date |-> Timestamp(2024, 1, 20, 12)] }

\* The rows of get_student_performance_data: one per enrollment and
\* assignment of the course, the grade missing when nothing was submitted or
\* graded (LEFT JOIN submissions).
SubmissionRows ==
    { SubmissionRow(e, g, FALSE) :
        e \in PerformanceEnrollments, g \in {NaN, Num(0), Num(60), Num(95)} }
    \cup
    { SubmissionRow(e, Num(60), TRUE) : e \in PerformanceEnrollments }

\* ORDER BY s.id, c.id
RowsOrdered(rows) ==
    \A i \in 1..(Len(rows) - 1) :
        \/ rows[i].student_id < rows[i + 1].student_id
        \/ /\ rows[i].student_id = rows[i + 1].student_id
           /\ rows[i].course_id <= rows[i + 1].course_id

PerformanceColumns ==
    {"student_id", "course_id", "enrollment_date", "is_completed", "grade", "is_late"}

\* df.dropna(subset=['grade'])
HasGrade(row) == IsNum(row.grade)
dropna_grade(rows) == SelectSeq(rows, HasGrade)

grade_bins == <<0, 60, 70, 80, 90, 100>>
grade_labels == <<"F (0-59)", "D (60-69)", "C (70-79)", "B (80-89)", "A (90-100)">>

\* pd.cut(grade, bins, labels): the bins are open on the left and closed on
\* the right, (0, 60], (60, 70], ..., (90, 100]; a grade in no bin is NaN.
cut(g) ==
    IF \E i \in 1..Len(grade_labels) : grade_bins[i] < g /\ g <= grade_bins[i + 1]
    THEN grade_labels[CHOOSE i \in 1..Len(grade_labels) :
                        grade_bins[i] < g /\ g <= grade_bins[i + 1]]
    ELSE "NaN"

\* grade_ranges: the label of every graded row.
grade_ranges_of(graded) == [i \in 1..Len(graded) |-> cut(graded[i].grade.v)]

\* grade_ranges.value_counts().sort_index(): every label with its count, NaN
\* entries not counted.
value_counts(labels) ==
    [l \in {grade_labels[i] : i \in 1..Len(grade_labels)} |->
        Cardinality({i \in 1..Len(labels) : labels[i] = l})]

\* report['grade_distribution'] of generate_performance_report.
report_grade_distribution(graded_df) ==
    LET n(Mask(_)) == Len(SelectSeq(graded_df, Mask))
        A(r) == r.grade.v >= 90
        B(r) == r.grade.v >= 80 /\ r.grade.v < 90
        C(r) == r.grade.v >= 70 /\ r.grade.v < 80
        D(r) == r.grade.v >= 60 /\ r.grade.v < 70
        F(r) == r.grade.v < 60
    IN  [l \in {grade_labels[i] : i \in 1..Len(grade_labels)} |->
           CASE l = "A (90-100)" -> n(A)
             [] l = "B (80-89)" -> n(B)
             [] l = "C (70-79)" -> n(C)
             [] l = "D (60-69)" -> n(D)
             [] l = "F (0-59)" -> n(F)]

\* Column aggregations over the rows of one group.
grade_sum(rows) == SumSeq([i \in 1..Len(rows) |-> rows[i].grade.v])
late_sum(rows) == Cardinality({i \in 1..Len(rows) : rows[i].is_late})
is_completed_row_sum(rows) == Cardinality({i \in 1..Len(rows) : rows[i].is_completed})
nunique_course(rows) == Cardinality({rows[i].course_id : i \in 1..Len(rows)})
nunique_student(rows) == Cardinality({rows[i].student_id : i \in 1..Len(rows)})

\* analyze_performance_by_course: one row per course with a graded
\* submission (the median and the standard deviation are left out).
course_performance_of(rows) ==
    LET graded == dropna_grade(rows)
        keys == {graded[i].course_id : i \in 1..Len(graded)}
        InGroup(c) == SelectSeq(graded, LAMBDA r : r.course_id = c)
    IN  [c \in keys |->
           LET g == InGroup(c)
           IN  [avg_grade |-> Round2(grade_sum(g), Len(g)),
                submissions |-> Len(g),
                late_submissions |-> late_sum(g),
                unique_students |-> nunique_student(g),
                late_rate |-> PandasPercent2(late_sum(g), Len(g))]]

\* analyze_performance_by_student: one row per student with a graded
\* submission.  courses_enrolled is the nunique of course_id and
\* courses_completed the sum of is_completed over the student's graded rows.
student_performance_of(rows) ==
    LET graded == dropna_grade(rows)
        keys == {graded[i].student_id : i \in 1..Len(graded)}
        InGroup(s) == SelectSeq(graded, LAMBDA r : r.student_id = s)
    IN  [s \in keys |->
           LET g == InGroup(s)
           IN  [avg_grade |-> Round2(grade_sum(g), Len(g)),
                total_submissions |-> Len(g),
                courses_enrolled |-> nunique_course(g),
                late_submissions |-> late_sum(g),
                late_rate |-> Round2(late_sum(g), Len(g)),
                courses_completed |-> is_completed_row_sum(g),
                completion_rate |->
                  PandasPercent2(is_completed_row_sum(g), nunique_course(g))]]

\* A pandas DataFrame or a dict returned by a calculator.
DataFrame(data) == [k |-> "DataFrame", data |-> data]

\* pd.to_datetime(enrollment_date).dt.to_period('M')
to_period_M(t) == <<t.year, t.month>>

\* df['enrollment_month'] = ...: the column is added to the frame it is given.
with_enrollment_month(df) ==
    [columns |-> df.columns \cup {"enrollment_month"},
     rows |-> [i \in 1..Len(df.rows) |->
                 [c \in DOMAIN df.rows[i] \cup {"enrollment_month"} |->
                    IF c = "enrollment_month"
                    THEN to_period_M(df.rows[i].enrollment_date)
                    ELSE df.rows[i][c]]]]

\* analyze_performance_trends: one row per enrollment month with a graded
\* submission.
monthly_performance_of(rows) ==
    LET graded == dropna_grade(rows)
        keys == {to_period_M(graded[i].enrollment_date) : i \in 1..Len(graded)}
        InGroup(m) == SelectSeq(graded, LAMBDA r : to_period_M(r.enrollment_date) = m)
    IN  [m \in keys |->
           LET g == InGroup(m)
           IN  [avg_grade |-> Round2(grade_sum(g), Len(g)),
                submissions |-> Len(g),
                late_rate |-> Round2(Round2(late_sum(g), Len(g)), 1),
                completion_rate |-> Round2(Round2(is_completed_row_sum(g), Len(g)), 1)]]

\* generate_performance_report: the report dict.
performance_report_of(rows) ==
    LET graded_df == dropna_grade(rows)
    IN  [total_students |-> nunique_student(rows),
         total_submissions |-> Len(rows),
         graded_submissions |-> Len(graded_df),
         overall_average_grade |->
           IF Len(graded_df) > 0 THEN Frac(grade_sum(graded_df), Len(graded_df))
           ELSE Frac(0, 1),
         grade_distribution |-> report_grade_distribution(graded_df),
         late_submission_rate |->
           IF Len(graded_df) > 0 THEN Frac(late_sum(graded_df) * 100, Len(graded_df))
           ELSE Frac(0, 1)]

\* Variant: every student is ranked.
top_students_unfiltered(table) ==
    head(SortDesc(SetToSeq(DOMAIN table), [s \in DOMAIN table |-> Num(table[s].avg_grade)]), 5)

\* top_students: student_performance[total_submissions >= 3]
\*   .sort_values('avg_grade', ascending=False).head(5), as student ids.
top_students_of(table) ==
    head(SortDesc(SelectSeq(SetToSeq(DOMAIN table),
                            LAMBDA s : table[s].total_submissions >= 3),
                  [s \in DOMAIN table |-> Num(table[s].avg_grade)]), 5)

\* A class: every student is enrolled in course 1 and has two or three
\* graded submissions, all with the same grade; the students with two are
\* the first or the last ones of the class.
ClassEnrollment(s) ==
    [student_id |-> s, course_id |-> 1, is_completed |-> FALSE, enrollment_date |-> Jan01]

ClassRows(n, g) ==
    LET owner == [i \in 1..SumSeq(n) |->
                    CHOOSE s \in 1..Len(n) :
                       SumSeq(SubSeq(n, 1, s - 1)) < i /\ i <= SumSeq(SubSeq(n, 1, s))]
    IN  [i \in 1..SumSeq(n) |-> SubmissionRow(ClassEnrollment(owner[i]), g[owner[i]], FALSE)]

PerformanceNext(at) ==
    IF student_performance.pc = "call" THEN "call"
    ELSE CASE at = "calculate_performance_metrics" -> "analyze_performance_by_course"
           [] at = "analyze_performance_by_course" -> "analyze_performance_by_student"
           [] at = "analyze_performance_by_student" -> "analyze_performance_trends"
           [] at = "analyze_performance_trends" -> "create_performance_visualizations"
           [] at = "create_performance_visualizations" -> "generate_performance_report"
           [] at = "generate_performance_report" -> "done"

PerformanceAt(at) ==
    \/ student_performance.pc = at
    \/ student_performance.pc = "call" /\ student_performance.calls < MaxCalls

InitPerformance ==
    /\ \E rows \in SeqsUpTo(SubmissionRows, MaxSubmissionRows), entry \in {"main", "call"} :
          /\ RowsOrdered(rows)
          /\ student_performance =
               [pc |-> entry, calls |-> 0,
                df |-> [columns |-> PerformanceColumns, rows |-> rows],
                snapshot |-> rows,
                stdout |-> <<>>, graded_df |-> None, grade_ranges |-> None,
                grade_dist |-> None, course_performance |-> None,
                student_performance |-> None, top_students |-> None,
                monthly_performance |-> None,
                report |-> None, files |-> <<>>]
    /\ course_completion = Idle
    /\ mentor_effectiveness = Idle
    /\ dashboard = Idle
    /\ app = Idle

\* The script started on a class-sized snapshot.
InitClass ==
    /\ \E short \in 0..MaxStudents, first \in BOOLEAN,
          g \in [1..MaxStudents -> {Num(60), Num(95)}] :
          LET n == [s \in 1..MaxStudents |->
                      IF (first /\ s <= short) \/ (~first /\ s > MaxStudents - short)
                      THEN 2 ELSE 3]
          IN
          student_performance =
            [pc |-> "main", calls |-> 0,
             df |-> [columns |-> PerformanceColumns, rows |-> ClassRows(n, g)],
             snapshot |-> ClassRows(n, g),
             stdout |-> <<>>, graded_df |-> None, grade_ranges |-> None,
             grade_dist |-> None, course_performance |-> None,
             student_performance |-> None, top_students |-> None,
             monthly_performance |-> None,
             report |-> None, files |-> <<>>]
    /\ course_completion = Idle
    /\ mentor_effectiveness = Idle
    /\ dashboard = Idle
    /\ app = Idle

\* main(): the empty-snapshot check.
performance_main ==
    /\ student_performance.pc = "main"
    /\ IF Len(student_performance.df.rows) = 0
       THEN student_performance' =
              [student_performance EXCEPT !.pc = "done",
                 !.stdout = Append(@, "No data found. Please check database connection and data.")]
       ELSE student_performance' =
              [student_performance EXCEPT !.pc = "calculate_performance_metrics"]
    /\ UNCHANGED <<course_completion, mentor_effectiveness, dashboard, app>>

\* calculate_performance_metrics(df); main() returns when it returns None.
calculate_performance_metrics ==
    /\ PerformanceAt("calculate_performance_metrics")
    /\ LET graded_submissions == dropna_grade(student_performance.df.rows)
           grade_ranges == grade_ranges_of(graded_submissions)
       IN  IF Len(graded_submissions) = 0
           THEN student_performance' =
                  [student_performance EXCEPT
                     !.pc = IF @ = "call" THEN "call" ELSE "done",
                     !.calls = @ + 1,
                     !.stdout = Append(@, "No graded submissions found.")]
           ELSE student_performance' =
                  [student_performance EXCEPT
                     !.pc = PerformanceNext("calculate_performance_metrics"),
                     !.calls = @ + 1,
                     !.graded_df = DataFrame(graded_submissions),
                     !.grade_ranges = Series(grade_ranges),
                     !.grade_dist = DataFrame(value_counts(grade_ranges))]
    /\ UNCHANGED <<course_completion, mentor_effectiveness, dashboard, app>>

analyze_performance_by_course ==
    /\ PerformanceAt("analyze_performance_by_course")
    /\ student_performance' =
         [student_performance EXCEPT
            !.pc = PerformanceNext("analyze_performance_by_course"),
            !.calls = @ + 1,
            !.course_performance =
               DataFrame(course_performance_of(student_performance.df.rows))]
    /\ UNCHANGED <<course_completion, mentor_effectiveness, dashboard, app>>

analyze_performance_by_student ==
    /\ PerformanceAt("analyze_performance_by_student")
    /\ student_performance' =
         [student_performance EXCEPT
            !.pc = PerformanceNext("analyze_performance_by_student"),
            !.calls = @ + 1,
            !.student_performance =
               DataFrame(student_performance_of(student_performance.df.rows)),
            !.top_students =
               Series(top_students_of(student_performance_of(student_performance.df.rows)))]
    /\ UNCHANGED <<course_completion, mentor_effectiveness, dashboard, app>>

analyze_performance_trends ==
    /\ PerformanceAt("analyze_performance_trends")
    /\ student_performance' =
         [student_performance EXCEPT
            !.pc = PerformanceNext("analyze_performance_trends"),
            !.calls = @ + 1,
            !.df = with_enrollment_month(@),
            !.monthly_performance =
               DataFrame(monthly_performance_of(student_performance.df.rows))]
    /\ UNCHANGED <<course_completion, mentor_effectiveness, dashboard, app>>

\* create_performance_visualizations(df): nothing is saved without a graded row.
create_performance_visualizations ==
    /\ PerformanceAt("create_performance_visualizations")
    /\ IF Len(dropna_grade(student_performance.df.rows)) = 0
       THEN student_performance' =
              [student_performance EXCEPT
                 !.pc = PerformanceNext("create_performance_visualizations"),
                 !.calls = @ + 1,
                 !.stdout = Append(@, "No graded submissions available for visualization.")]
       ELSE student_performance' =
              [student_performance EXCEPT
                 !.pc = PerformanceNext("create_performance_visualizations"),
                 !.calls = @ + 1,
                 !.files = Append(@, "student_performance_analysis.png")]
    /\ UNCHANGED <<course_completion, mentor_effectiveness, dashboard, app>>

generate_performance_report ==
    /\ PerformanceAt("generate_performance_report")
    /\ student_performance' =
         [student_performance EXCEPT
            !.pc = PerformanceNext("generate_performance_report"),
            !.calls = @ + 1,
            !.report = DataFrame(performance_report_of(student_performance.df.rows)),
            !.files = Append(@, "student_performance_report.json")]
    /\ UNCHANGED <<course_completion, mentor_effectiveness, dashboard, app>>

NextPerformance ==
    \/ performance_main
    \/ calculate_performance_metrics
    \/ analyze_performance_by_course
    \/ analyze_performance_by_student
    \/ analyze_performance_trends
    \/ create_performance_visualizations
    \/ generate_performance_report

SpecPerformance == InitPerformance /\ [][NextPerformance]_vars
SpecClass == InitClass /\ [][NextPerformance]_vars

(***************************************************************************)
(* Properties of student_performance_analysis.py                           *)
(***************************************************************************)
\* The graded rows of the snapshot of the run.
GradedRows == dropna_grade(student_performance.df.rows)

\* The sum of the five bucket counts of a distribution.
BucketTotal(dist) ==
    dist["F (0-59)"] + dist["D (60-69)"] + dist["C (70-79)"] + dist["B (80-89)"]
      + dist["A (90-100)"]

\* C2: for graded submissions with integer grades 0..100 the five bucket
\* counts F, D, C, B, A sum to the number of graded submissions, in the
\* distribution of calculate_performance_metrics and in grade_distribution
\* of generate_performance_report: no graded submission is outside every
\* bucket or in two of them.
C2_BucketCountsSumToGraded ==
    /\ student_performance.grade_dist # None =>
         BucketTotal(student_performance.grade_dist.data) = Len(GradedRows)
    /\ student_performance.report # None =>
         BucketTotal(student_performance.report.data.grade_distribution) = Len(GradedRows)

\* The bucket of a grade by the half-open boundaries F[0,60) D[60,70)
\* C[70,80) B[80,90) A[90,100].
LetterBucket(g) ==
    IF g < 60 THEN "F (0-59)"
    ELSE IF g < 70 THEN "D (60-69)"
    ELSE IF g < 80 THEN "C (70-79)"
    ELSE IF g < 90 THEN "B (80-89)"
    ELSE "A (90-100)"

\* C3: both histograms place every graded submission in the bucket of the
\* half-open boundaries: 60, 70, 80 and 90 fall in the upper bucket, 0 in
\* F and 100 in A, so the two computations agree on every grade.
C3_BucketBoundaries ==
    /\ student_performance.grade_ranges # None =>
         \A i \in 1..Len(GradedRows) :
            student_performance.grade_ranges.values[i] = LetterBucket(GradedRows[i].grade.v)
    /\ student_performance.report # None =>
         \A l \in DOMAIN student_performance.report.data.grade_distribution :
            student_performance.report.data.grade_distribution[l] =
              Cardinality({i \in 1..Len(GradedRows) : LetterBucket(GradedRows[i].grade.v) = l})
    /\ (student_performance.grade_dist # None /\ student_performance.report # None) =>
         \A l \in DOMAIN student_performance.report.data.grade_distribution :
            student_performance.grade_dist.data[l] =
              student_performance.report.data.grade_distribution[l]

\* The courses among the graded rows of student s, and the completed ones.
CoursesOf(s) ==
    {GradedRows[i].course_id : i \in {j \in 1..Len(GradedRows) : GradedRows[j].student_id = s}}
CompletedCoursesOf(s) ==
    {GradedRows[i].course_id :
       i \in {j \in 1..Len(GradedRows) :
                GradedRows[j].student_id = s /\ GradedRows[j].is_completed}}

\* C4: the completion rate of a student in analyze_performance_by_student
\* is (completed courses) / (enrolled courses) x 100, and so inside
\* [0,100], also when the student has several graded submissions in one
\* course.
C4_StudentCompletionRate ==
    student_performance.student_performance # None =>
      \A s \in DOMAIN student_performance.student_performance.data :
         LET row == student_performance.student_performance.data[s]
         IN  /\ IsNum(row.completion_rate)
             /\ row.completion_rate.v >= 0
             /\ row.completion_rate.v <= 100 * 100
             /\ row.completion_rate.v =
                  Round2(Cardinality(CompletedCoursesOf(s)) * 100, Cardinality(CoursesOf(s)))

(***************************************************************************)
(* mentor_effectiveness_analysis.py                                        *)
(*                                                                         *)
(* Percentages, ratings and scores are carried in hundredths: 8000 is      *)
(* 80.00, 400 is 4.00.                                                     *)
(***************************************************************************)
\* ROUND(completed / NULLIF(enrolled, 0) * 100, 2) of the query: NULL, read
\* as NaN, for a course without enrolled students.
sql_completion_rate(enrolled, completed) ==
    IF enrolled = 0 THEN NaN ELSE Num(Round2(completed * 100, enrolled))

\* One row of get_mentor_effectiveness_data: a course of a mentor with its
\* counts and averages.  rating and score are NaN without reviews or graded
\* submissions (AVG over no rows).
CourseFact(enrolled, completed, rating, reviews, graded, score) ==
    [enrolled_students |-> enrolled, completed_students |-> completed,
     completion_rate |-> sql_completion_rate(enrolled, completed),
     avg_course_rating |-> rating, total_reviews |-> reviews,
     assignments_created |-> IF graded > 0 THEN 1 ELSE 0,
     graded_submissions |-> graded, avg_assignment_score |-> score,
     modules_created |-> 2]

CourseFacts ==
    { CourseFact(0, 0, NaN, 0, 0, NaN),
      CourseFact(5, 4, Num(400), 3, 3, Num(7500)),
      CourseFact(5, 5, Num(400), 3, 3, Num(7500)),
      CourseFact(5, 4, Num(500), 3, 3, Num(7500)),
      CourseFact(5, 4, Num(400), 3, 3, Num(8000)),
      CourseFact(5, 5, Num(500), 3, 3, Num(8333)),
      CourseFact(5, 3, Num(400), 3, 3, Num(8000)),
      CourseFact(5, 3, NaN, 0, 3, Num(8000)),
      CourseFact(5, 5, Num(500), 5, 0, NaN),
      CourseFact(2, 2, Num(500), 2, 2, Num(9000)) }

MentorIds == {1, 2}

MentorRow(m, fact) == [mentor_id |-> m, fact |-> fact]

\* ORDER BY m.id
MentorRowsOrdered(rows) ==
    \A i \in 1..(Len(rows) - 1) : rows[i].mentor_id <= rows[i + 1].mentor_id

\* The numbers among a sequence of floats.
NumbersOf(xs) == SelectSeq(xs, IsNum)

\* mean of a column within a group, NaN skipped, then .round(2); NaN when
\* every value is NaN.
mean_round2(xs) ==
    LET nums == NumbersOf(xs)
    IN  IF nums = <<>> THEN NaN
        ELSE Num(RoundHalfEven(SumSeq([i \in 1..Len(nums) |-> nums[i].v]), Len(nums)))

\* Variant: the rating is scaled by 20 as on the dashboard.
effectiveness_score_scale20(completion_rate, avg_course_rating, avg_assignment_score) ==
    IF IsNum(completion_rate) /\ IsNum(avg_course_rating) /\ IsNum(avg_assignment_score)
    THEN Num(RoundHalfEven(completion_rate.v * 4 + avg_course_rating.v * 20 * 3
                             + avg_assignment_score.v * 3, 10))
    ELSE NaN

\* Variant: the assignment score is subtracted.
effectiveness_score_minus(completion_rate, avg_course_rating, avg_assignment_score) ==
    IF IsNum(completion_rate) /\ IsNum(avg_course_rating) /\ IsNum(avg_assignment_score)
    THEN Num(RoundHalfEven(completion_rate.v * 4 + avg_course_rating.v * 10 * 3
                             - avg_assignment_score.v * 3 + 100000, 10) - 10000)
    ELSE NaN

\* (completion_rate * 0.4 + avg_course_rating * 10 * 0.3
\*   + avg_assignment_score * 0.3).round(2); NaN when a term is NaN.
effectiveness_score(completion_rate, avg_course_rating, avg_assignment_score) ==
    IF IsNum(completion_rate) /\ IsNum(avg_course_rating) /\ IsNum(avg_assignment_score)
    THEN Num(RoundHalfEven(completion_rate.v * 4 + avg_course_rating.v * 10 * 3
                             + avg_assignment_score.v * 3, 10))
    ELSE NaN

\* The rows of one mentor, and a column of them.
RowsOfMentor(rows, m) == SelectSeq(rows, LAMBDA r : r.mentor_id = m)
Column(rows, c) == [i \in 1..Len(rows) |-> rows[i].fact[c]]

\* calculate_mentor_metrics: mentor_summary, one row per mentor.
mentor_summary_of(rows) ==
    [m \in {rows[i].mentor_id : i \in 1..Len(rows)} |->
       LET g  == RowsOfMentor(rows, m)
           cr == mean_round2(Column(g, "completion_rate"))
           ra == mean_round2(Column(g, "avg_course_rating"))
           sc == mean_round2(Column(g, "avg_assignment_score"))
       IN  [course_id |-> Len(g),
            enrolled_students |-> SumSeq(Column(g, "enrolled_students")),
            completed_students |-> SumSeq(Column(g, "completed_students")),
            completion_rate |-> cr,
            avg_course_rating |-> ra,
            total_reviews |-> SumSeq(Column(g, "total_reviews")),
            assignments_created |-> SumSeq(Column(g, "assignments_created")),
            graded_submissions |-> SumSeq(Column(g, "graded_submissions")),
            avg_assignment_score |-> sc,
            modules_created |-> SumSeq(Column(g, "modules_created")),
            effectiveness_score |-> effectiveness_score(cr, ra, sc)]]

\* A float comparison: False when an operand is NaN.
FloatGeq(x, n) == IsNum(x) /\ x.v >= n
FloatLess(x, n) == IsNum(x) /\ x.v < n

\* Variant: the high tier starts above 80.
is_high_performer_strict(score) == IsNum(score) /\ score.v > 8000

\* The three masks of mentor_performance_distribution.
is_high_performer(score) == FloatGeq(score, 8000)
is_average_performer(score) == FloatGeq(score, 6000) /\ FloatLess(score, 8000)
needs_improvement(score) == FloatLess(score, 6000)

\* Series.mean(): NaN skipped, NaN when nothing is left; a fraction of
\* hundredths.
mean_skipna(xs) ==
    LET nums == NumbersOf(xs)
    IN  IF nums = <<>> THEN NaN
        ELSE Frac(SumSeq([i \in 1..Len(nums) |-> nums[i].v]), Len(nums))

\* generate_mentor_report: the report dict.
mentor_report_of(summary) ==
    LET ms == SetToSeq(DOMAIN summary)
        scores == [m \in DOMAIN summary |-> summary[m].effectiveness_score]
    IN  [total_mentors |-> Len(ms),
         total_courses |-> SumSeq([i \in 1..Len(ms) |-> summary[ms[i]].course_id]),
         total_students |-> SumSeq([i \in 1..Len(ms) |-> summary[ms[i]].enrolled_students]),
         average_effectiveness_score |-> mean_skipna([i \in 1..Len(ms) |-> scores[ms[i]]]),
         mentor_performance_distribution |->
           [high_performers |->
              Cardinality({m \in DOMAIN summary : is_high_performer(scores[m])}),
            average_performers |->
              Cardinality({m \in DOMAIN summary : is_average_performer(scores[m])}),
            needs_improvement |->
              Cardinality({m \in DOMAIN summary : needs_improvement(scores[m])})],
         top_mentors |-> head(SortDesc(ms, scores), 5)]

\* Variant: the leaderboards without their minimum-sample thresholds.
rankings_without_thresholds(summary) ==
    LET ms == SetToSeq(DOMAIN summary)
        col(c) == [m \in DOMAIN summary |-> summary[m][c]]
        productivity == [m \in DOMAIN summary |->
                           Num(summary[m].course_id * 1000000 + summary[m].enrolled_students)]
    IN  [top_effective |-> head(SortDesc(ms, col("effectiveness_score")), 10),
         top_completion |-> head(SortDesc(ms, col("completion_rate")), 5),
         top_rated |-> head(SortDesc(ms, col("avg_course_rating")), 5),
         most_productive |-> head(SortDesc(ms, productivity), 5)]

\* rank_mentors: the four leaderboards, as mentor ids.
rankings_of(summary) ==
    LET ms == SetToSeq(DOMAIN summary)
        col(c) == [m \in DOMAIN summary |-> summary[m][c]]
        \* sort_values(['course_id', 'enrolled_students']): the second column
        \* orders the rows whose first column is equal.
        productivity == [m \in DOMAIN summary |->
                           Num(summary[m].course_id * 1000000 + summary[m].enrolled_students)]
    IN  [top_effective |-> head(SortDesc(ms, col("effectiveness_score")), 10),
         top_completion |->
           head(SortDesc(SelectSeq(ms, LAMBDA m : summary[m].enrolled_students >= 5),
                         col("completion_rate")), 5),
         top_rated |->
           head(SortDesc(SelectSeq(ms, LAMBDA m : summary[m].total_reviews >= 3),
                         col("avg_course_rating")), 5),
         most_productive |-> head(SortDesc(ms, productivity), 5)]

\* (completion_rate * 0.6 + avg_course_rating * 20 * 0.4).round(2)
success_score(completion_rate, avg_course_rating) ==
    IF IsNum(completion_rate) /\ IsNum(avg_course_rating)
    THEN Num(RoundHalfEven(completion_rate.v * 6 + avg_course_rating.v * 20 * 4, 10))
    ELSE NaN

\* analyze_course_performance_by_mentor: course_success, one row per course
\* of the snapshot, and the two course leaderboards as row numbers.
course_success_of(rows) ==
    LET idx == [i \in 1..Len(rows) |-> i]
        score == [i \in 1..Len(rows) |->
                    success_score(rows[i].fact.completion_rate, rows[i].fact.avg_course_rating)]
        rating == [i \in 1..Len(rows) |-> rows[i].fact.avg_course_rating]
    IN  [success_score |-> score,
         best_courses |->
           head(SortDesc(SelectSeq(idx, LAMBDA i : rows[i].fact.total_reviews >= 3), rating), 10),
         successful_courses |->
           head(SortDesc(SelectSeq(idx, LAMBDA i : rows[i].fact.enrolled_students >= 5), score), 10)]

\* (n / d).round(1) and (n / d).round(2) on columns, in tenths and in
\* hundredths; a zero denominator gives NaN or inf.
PandasRatio1(n, d) == IF d # 0 THEN Num(RoundHalfEven(n * 10, d)) ELSE PandasDiv(n, d)
PandasRatio2(n, d) == IF d # 0 THEN Num(Round2(n, d)) ELSE PandasDiv(n, d)

\* analyze_mentor_workload_efficiency: workload_df, one row per mentor.
workload_of(rows) ==
    [m \in {rows[i].mentor_id : i \in 1..Len(rows)} |->
       LET g == RowsOfMentor(rows, m)
           courses  == Len(g)
           enrolled == SumSeq(Column(g, "enrolled_students"))
           graded   == SumSeq(Column(g, "graded_submissions"))
           modules  == SumSeq(Column(g, "modules_created"))
       IN  [course_id |-> courses,
            enrolled_students |-> enrolled,
            graded_submissions |-> graded,
            modules_created |-> modules,
            assignments_created |-> SumSeq(Column(g, "assignments_created")),
            avg_students_per_course |-> PandasRatio1(enrolled, courses),
            grading_load |-> PandasRatio2(graded, enrolled),
            content_density |-> PandasRatio1(modules, courses)]]

MentorNext(at) ==
    IF mentor_effectiveness.pc = "call" THEN "call"
    ELSE CASE at = "calculate_mentor_metrics" -> "rank_mentors"
           [] at = "rank_mentors" -> "analyze_course_performance_by_mentor"
           [] at = "analyze_course_performance_by_mentor" -> "analyze_mentor_workload_efficiency"
           [] at = "analyze_mentor_workload_efficiency" -> "create_mentor_visualizations"
           [] at = "create_mentor_visualizations" -> "generate_mentor_report"
           [] at = "generate_mentor_report" -> "done"

MentorAt(at) ==
    \/ mentor_effectiveness.pc = at
    \/ mentor_effectiveness.pc = "call" /\ mentor_effectiveness.calls < MaxCalls

InitMentorScript ==
    /\ \E facts \in SeqsUpTo(CourseFacts, MaxCourseRows), entry \in {"main", "call"} :
         \E ids \in [1..Len(facts) -> MentorIds] :
            LET rows == [i \in 1..Len(facts) |-> MentorRow(ids[i], facts[i])]
            IN  /\ MentorRowsOrdered(rows)
                /\ mentor_effectiveness =
                     [pc |-> entry, calls |-> 0, df |-> rows, stdout |-> <<>>,
                      mentor_summary |-> None, rankings |-> None,
                      course_success |-> None, workload_df |-> None,
                      report |-> None, files |-> <<>>]
    /\ course_completion = Idle
    /\ student_performance = Idle
    /\ dashboard = Idle
    /\ app = Idle

\* main(): the empty-snapshot check.
mentor_main ==
    /\ mentor_effectiveness.pc = "main"
    /\ IF Len(mentor_effectiveness.df) = 0
       THEN mentor_effectiveness' =
              [mentor_effectiveness EXCEPT !.pc = "done",
                 !.stdout = Append(@, "No data found. Please check database connection and data.")]
       ELSE mentor_effectiveness' =
              [mentor_effectiveness EXCEPT !.pc = "calculate_mentor_metrics"]
    /\ UNCHANGED <<course_completion, student_performance, dashboard, app>>

calculate_mentor_metrics ==
    /\ MentorAt("calculate_mentor_metrics")
    /\ mentor_effectiveness' =
         [mentor_effectiveness EXCEPT
            !.pc = MentorNext("calculate_mentor_metrics"), !.calls = @ + 1,
            !.mentor_summary = DataFrame(mentor_summary_of(mentor_effectiveness.df))]
    /\ UNCHANGED <<course_completion, student_performance, dashboard, app>>

\* rank_mentors(mentor_summary)
rank_mentors ==
    /\ MentorAt("rank_mentors")
    /\ mentor_effectiveness.mentor_summary # None
    /\ mentor_effectiveness' =
         [mentor_effectiveness EXCEPT
            !.pc = MentorNext("rank_mentors"), !.calls = @ + 1,
            !.rankings = DataFrame(rankings_of(mentor_effectiveness.mentor_summary.data))]
    /\ UNCHANGED <<course_completion, student_performance, dashboard, app>>

analyze_course_performance_by_mentor ==
    /\ MentorAt("analyze_course_performance_by_mentor")
    /\ mentor_effectiveness' =
         [mentor_effectiveness EXCEPT
            !.pc = MentorNext("analyze_course_performance_by_mentor"), !.calls = @ + 1,
            !.course_success = DataFrame(course_success_of(mentor_effectiveness.df))]
    /\ UNCHANGED <<course_completion, student_performance, dashboard, app>>

analyze_mentor_workload_efficiency ==
    /\ MentorAt("analyze_mentor_workload_efficiency")
    /\ mentor_effectiveness' =
         [mentor_effectiveness EXCEPT
            !.pc = MentorNext("analyze_mentor_workload_efficiency"), !.calls = @ + 1,
            !.workload_df = DataFrame(workload_of(mentor_effectiveness.df))]
    /\ UNCHANGED <<course_completion, student_performance, dashboard, app>>

\* create_mentor_visualizations(df, mentor_summary)
create_mentor_visualizations ==
    /\ MentorAt("create_mentor_visualizations")
    /\ mentor_effectiveness.mentor_summary # None
    /\ mentor_effectiveness' =
         [mentor_effectiveness EXCEPT
            !.pc = MentorNext("create_mentor_visualizations"), !.calls = @ + 1,
            !.files = Append(@, "mentor_effectiveness_analysis.png")]
    /\ UNCHANGED <<course_completion, student_performance, dashboard, app>>

\* generate_mentor_report(df, mentor_summary)
generate_mentor_report ==
    /\ MentorAt("generate_mentor_report")
    /\ mentor_effectiveness.mentor_summary # None
    /\ mentor_effectiveness' =
         [mentor_effectiveness EXCEPT
            !.pc = MentorNext("generate_mentor_report"), !.calls = @ + 1,
            !.report = DataFrame(mentor_report_of(mentor_effectiveness.mentor_summary.data)),
            !.files = Append(@, "mentor_effectiveness_report.json")]
    /\ UNCHANGED <<course_completion, student_performance, dashboard, app>>

NextMentorScript ==
    \/ mentor_main
    \/ calculate_mentor_metrics
    \/ rank_mentors
    \/ analyze_course_performance_by_mentor
    \/ analyze_mentor_workload_efficiency
    \/ create_mentor_visualizations
    \/ generate_mentor_report

(***************************************************************************)
(* dashboard.py: the "Mentor Effectiveness" page                           *)
(***************************************************************************)
\* A course of the store as the page reads it: len(course.enrollments), the
\* completed ones, and course.get_average_rating() in hundredths, 0 for a
\* course without reviews.
StoreCourse(enrollments, completed, rating) ==
    [enrollments |-> enrollments, completed |-> completed, average_rating |-> rating]

StoreCourses == {StoreCourse(0, 0, 0), StoreCourse(4, 2, 450), StoreCourse(5, 5, 400)}

\* The course a mentor has just created: nobody enrolled, no review.
NewCourse == StoreCourse(0, 0, 0)

\* The approved, active mentors of the store.
StoreMentors == {1, 2}

\* get_mentor_effectiveness(): the row of one mentor.
mentor_data_row(courses) ==
    LET total_enrollments == SumSeq([i \in 1..Len(courses) |-> courses[i].enrollments])
        total_completed == SumSeq([i \in 1..Len(courses) |-> courses[i].completed])
        rated == SelectSeq(courses, LAMBDA c : c.average_rating > 0)
    IN  [courses_count |-> Len(courses),
         total_students |-> total_enrollments,
         completion_rate |->
           IF total_enrollments > 0 THEN Frac(total_completed * 100, total_enrollments)
           ELSE Frac(0, 1),
         \* np.mean of an empty list is NaN
         avg_course_rating |->
           IF Len(courses) = 0 THEN Frac(0, 1)
           ELSE IF Len(rated) = 0 THEN NaN
           ELSE Frac(SumSeq([i \in 1..Len(rated) |-> rated[i].average_rating]), Len(rated))]

\* mentor_data['courses_count'].max()
max_courses_count(data) ==
    CHOOSE n \in {data[m].courses_count : m \in DOMAIN data} :
       \A m \in DOMAIN data : data[m].courses_count <= n

\* (completion_rate * 0.5 + avg_course_rating * 20 * 0.3
\*   + (courses_count / courses_count.max()) * 100 * 0.2).round(2), in
\* hundredths: completion_rate is a percentage p/q, the rating r/s is in
\* hundredths, the workload term is w.num/w.den.
dashboard_effectiveness_score(row, max_count) ==
    LET cr == row.completion_rate
        ra == row.avg_course_rating
        w  == PandasDiv(row.courses_count, max_count)
    IN  IF ra = NaN \/ w = NaN THEN NaN
        ELSE Num(RoundHalfEven(50 * cr.num * ra.den * w.den + 6 * ra.num * cr.den * w.den
                                 + 2000 * w.num * cr.den * ra.den,
                               cr.den * ra.den * w.den))

\* The page: mentor_data with its effectiveness_score column.
mentor_page_of(store) ==
    LET data == [m \in DOMAIN store |-> mentor_data_row(store[m])]
        top  == max_courses_count(data)
    IN  [m \in DOMAIN store |->
           [courses_count |-> data[m].courses_count,
            total_students |-> data[m].total_students,
            completion_rate |-> data[m].completion_rate,
            avg_course_rating |-> data[m].avg_course_rating,
            effectiveness_score |-> dashboard_effectiveness_score(data[m], top)]]

InitDashboard ==
    /\ \E store \in [StoreMentors -> SeqsUpTo(StoreCourses, MaxStoreCourses)] :
          dashboard = [pc |-> "page", store |-> store, mentor_data |-> None,
                       previous |-> None]
    /\ course_completion = Idle
    /\ student_performance = Idle
    /\ mentor_effectiveness = Idle
    /\ app = Idle

\* main(), page "Mentor Effectiveness": the page is computed from the store
\* on every load; previous keeps what the load before showed.
mentor_effectiveness_page ==
    /\ dashboard.pc = "page"
    /\ dashboard' =
         [dashboard EXCEPT
            !.mentor_data = DataFrame(mentor_page_of(dashboard.store)),
            !.previous = dashboard.mentor_data]
    /\ UNCHANGED <<course_completion, student_performance, mentor_effectiveness, app>>

\* Between two loads a mentor creates a course (POST /courses).
create_course ==
    /\ dashboard.pc = "page"
    /\ \E m \in StoreMentors :
          /\ Len(dashboard.store[m]) < MaxStoreCourses
          /\ dashboard' = [dashboard EXCEPT !.store[m] = Append(@, NewCourse)]
    /\ UNCHANGED <<course_completion, student_performance, mentor_effectiveness, app>>

NextDashboard ==
    \/ mentor_effectiveness_page
    \/ create_course

\* Either program: the mentor script on a snapshot, or the dashboard page
\* on the store.
InitEffectiveness == InitMentorScript \/ InitDashboard
NextEffectiveness == NextMentorScript \/ NextDashboard
SpecEffectiveness == InitEffectiveness /\ [][NextEffectiveness]_vars

(***************************************************************************)
(* Properties of mentor_effectiveness_analysis.py and of the dashboard's   *)
(* "Mentor Effectiveness" page                                             *)
(***************************************************************************)
MentorScriptRan == mentor_effectiveness.pc # "not_run"
MentorSummaryReady == MentorScriptRan /\ mentor_effectiveness.mentor_summary # None
PageLoaded == dashboard.pc # "not_run" /\ dashboard.mentor_data # None

\* C6: every division of the calculators yields 0 when its denominator is
\* 0: the grading_load of a mentor without enrolled students is 0, and when
\* every mentor of the page has 0 courses the workload term is 0, so that
\* each score of the page is the number 0.
C6_DivisionByZeroYieldsZero ==
    /\ (MentorScriptRan /\ mentor_effectiveness.workload_df # None) =>
         \A m \in DOMAIN mentor_effectiveness.workload_df.data :
            LET row == mentor_effectiveness.workload_df.data[m]
            IN  row.enrolled_students = 0 => row.grading_load = Num(0)
    /\ PageLoaded =>
         LET data == dashboard.mentor_data.data
         IN  (\A m \in DOMAIN data : data[m].courses_count = 0) =>
                \A m \in DOMAIN data : data[m].effectiveness_score = Num(0)

\* score is a number of hundredths nearest to tenfold / 10.
NearestHundredth(score, tenfold) ==
    /\ 10 * score - tenfold <= 5
    /\ tenfold - 10 * score <= 5

\* C8: for every mentor of mentor_summary, effectiveness_score is
\* 0.4 x completion_rate + 0.3 x (avg_course_rating x 10)
\* + 0.3 x avg_assignment_score rounded to 2 decimals (not a number when a
\* term is not a number); for 80, 4.0 and 75 it is 66.5.
C8_EffectivenessScoreFormula ==
    MentorSummaryReady =>
      \A m \in DOMAIN mentor_effectiveness.mentor_summary.data :
         LET row == mentor_effectiveness.mentor_summary.data[m]
             cr  == row.completion_rate
             ra  == row.avg_course_rating
             sc  == row.avg_assignment_score
         IN  /\ (IsNum(cr) /\ IsNum(ra) /\ IsNum(sc)) =>
                  /\ IsNum(row.effectiveness_score)
                  /\ NearestHundredth(row.effectiveness_score.v,
                                      4 * cr.v + 3 * (ra.v * 10) + 3 * sc.v)
             /\ ~(IsNum(cr) /\ IsNum(ra) /\ IsNum(sc)) => row.effectiveness_score = NaN
             /\ (cr = Num(8000) /\ ra = Num(400) /\ sc = Num(7500)) =>
                  row.effectiveness_score = Num(6650)

\* A summary holds a mentor with completion_rate 80, rating 4.0 and
\* assignment score 75, scored 66.5.
C8_Witness ==
    /\ MentorSummaryReady
    /\ \E m \in DOMAIN mentor_effectiveness.mentor_summary.data :
          LET row == mentor_effectiveness.mentor_summary.data[m]
          IN  /\ row.completion_rate = Num(8000)
              /\ row.avg_course_rating = Num(400)
              /\ row.avg_assignment_score = Num(7500)
              /\ row.effectiveness_score = Num(6650)

\* new is not lower than old.
NotLowered(old, new) == IsNum(old) => (IsNum(new) /\ new.v >= old.v)

\* b has metric c raised (or equal) over a, the two other metrics equal.
RaisedIn(a, b, c) ==
    /\ IsNum(a[c]) /\ IsNum(b[c]) /\ a[c].v <= b[c].v
    /\ \A o \in {"completion_rate", "avg_course_rating", "avg_assignment_score"} \ {c} :
          a[o] = b[o]

\* The mentor m of the page has courses_count raised (or equal) from load
\* old to load new, its two other metrics and the other mentors' data equal.
CoursesCountRaised(old, new, m) ==
    /\ old[m].courses_count <= new[m].courses_count
    /\ old[m].completion_rate = new[m].completion_rate
    /\ old[m].avg_course_rating = new[m].avg_course_rating
    /\ \A o \in DOMAIN old \ {m} :
          /\ old[o].courses_count = new[o].courses_count
          /\ old[o].completion_rate = new[o].completion_rate
          /\ old[o].avg_course_rating = new[o].avg_course_rating

\* C9: the effectiveness score is monotonically non-decreasing in each
\* sub-metric, the others held fixed: of two mentors of mentor_summary that
\* differ in one of completion_rate, avg_course_rating, avg_assignment_score
\* the one with the larger value has no lower score, and between two loads of
\* the dashboard page a mentor whose own courses_count rose, the rest of the
\* page's data being equal, has no lower score.
C9_ScoreMonotonic ==
    /\ MentorSummaryReady =>
         LET summary == mentor_effectiveness.mentor_summary.data
         IN  \A a \in DOMAIN summary, b \in DOMAIN summary :
                \A c \in {"completion_rate", "avg_course_rating", "avg_assignment_score"} :
                   RaisedIn(summary[a], summary[b], c) =>
                     NotLowered(summary[a].effectiveness_score, summary[b].effectiveness_score)
    /\ (PageLoaded /\ dashboard.previous # None) =>
         LET old == dashboard.previous.data
             new == dashboard.mentor_data.data
         IN  \A m \in DOMAIN old :
                CoursesCountRaised(old, new, m) =>
                  NotLowered(old[m].effectiveness_score, new[m].effectiveness_score)

\* Two loads of the page between which a mentor created a course, anything
\* else being equal, and that mentor's score rose.
C9_Witness ==
    /\ PageLoaded
    /\ dashboard.previous # None
    /\ \E m \in DOMAIN dashboard.previous.data :
          LET old == dashboard.previous.data
              new == dashboard.mentor_data.data
          IN  /\ CoursesCountRaised(old, new, m)
              /\ old[m].courses_count < new[m].courses_count
              /\ IsNum(old[m].effectiveness_score)
              /\ IsNum(new[m].effectiveness_score)
              /\ old[m].effectiveness_score.v < new[m].effectiveness_score.v

\* Two mentors of one summary that differ in exactly one sub-metric, each of
\* the three in turn being reachable, the larger one scoring higher.
StrictlyRaisedPair(c) ==
    /\ MentorSummaryReady
    /\ \E a \in DOMAIN mentor_effectiveness.mentor_summary.data,
          b \in DOMAIN mentor_effectiveness.mentor_summary.data :
          LET summary == mentor_effectiveness.mentor_summary.data
          IN  /\ RaisedIn(summary[a], summary[b], c)
              /\ summary[a][c].v < summary[b][c].v
              /\ IsNum(summary[a].effectiveness_score)
              /\ IsNum(summary[b].effectiveness_score)
              /\ summary[a].effectiveness_score.v < summary[b].effectiveness_score.v

C9_RaisedCompletionRate == StrictlyRaisedPair("completion_rate")

C9_RaisedCourseRating == StrictlyRaisedPair("avg_course_rating")

C9_RaisedAssignmentScore == StrictlyRaisedPair("avg_assignment_score")

\* The scores of the summary the report was generated from.
ReportedScores ==
    [m \in DOMAIN mentor_effectiveness.mentor_summary.data |->
       mentor_effectiveness.mentor_summary.data[m].effectiveness_score]

\* C10: the report counts a mentor as high performer when its score is
\* >= 80, as average when 60 <= score < 80, as needs-improvement when
\* score < 60; exactly 80 is high, exactly 60 is average.
C10_PerformanceTiers ==
    (MentorSummaryReady /\ mentor_effectiveness.report # None) =>
      LET tiers  == mentor_effectiveness.report.data.mentor_performance_distribution
          scores == ReportedScores
          ms     == DOMAIN scores
      IN  /\ tiers.high_performers =
               Cardinality({m \in ms : IsNum(scores[m]) /\ scores[m].v >= 8000})
          /\ tiers.average_performers =
               Cardinality({m \in ms : IsNum(scores[m]) /\ scores[m].v >= 6000
                                                        /\ scores[m].v < 8000})
          /\ tiers.needs_improvement =
               Cardinality({m \in ms : IsNum(scores[m]) /\ scores[m].v < 6000})
          /\ (\E m \in ms : scores[m] = Num(8000)) => tiers.high_performers >= 1
          /\ (\E m \in ms : scores[m] = Num(6000)) => tiers.average_performers >= 1

\* A report over a mentor scoring exactly 80 and a mentor scoring exactly 60.
C10_Witness ==
    /\ MentorSummaryReady
    /\ mentor_effectiveness.report # None
    /\ \E a \in DOMAIN ReportedScores, b \in DOMAIN ReportedScores :
          /\ ReportedScores[a] = Num(8000)
          /\ ReportedScores[b] = Num(6000)
    /\ mentor_effectiveness.report.data.mentor_performance_distribution.high_performers = 1
    /\ mentor_effectiveness.report.data.mentor_performance_distribution.average_performers = 1

(***************************************************************************)
(* dashboard.py: get_user_growth_data and the "Trends" page;               *)
(* routes/admin.py: get_user_growth                                        *)
(***************************************************************************)
\* The instants at which users of the table were created: the 28th of
\* thirteen consecutive months, and two days of the month after.
RegistrationDates ==
    {Timestamp(2023, m, 28, 9) : m \in 2..12}
      \cup {Timestamp(2024, 1, 28, 9), Timestamp(2024, 2, 28, 9),
            Timestamp(2024, 3, 5, 9), Timestamp(2024, 3, 20, 9)}

\* datetime.utcnow() of a request.
Clock == {Timestamp(2024, 1, 31, 12), Timestamp(2024, 3, 25, 12)}

\* datetime.utcnow() - timedelta(days=365), in hours.
twelve_months_ago(now) == to_datetime(now) - 365 * 24

\* User.created_at >= twelve_months_ago
in_window(created_at, now) == to_datetime(created_at) >= twelve_months_ago(now)

\* extract('year', ...), extract('month', ...) as one sortable key.
period_of(t) == t.year * 12 + (t.month - 1)

\* count(User.id) over the users created at the instants of S.
RECURSIVE count_users(_, _)
count_users(users, S) ==
    IF S = {} THEN 0
    ELSE LET t == CHOOSE x \in S : TRUE
         IN  users[t] + count_users(users, S \ {t})

\* The query: filter, GROUP BY (year, month), ORDER BY year, month; then the
\* list of dicts built from its rows.
monthly_registrations(users, now) ==
    LET kept == {t \in DOMAIN users : in_window(t, now)}
        keys == SetToSeq({period_of(t) : t \in kept})
    IN  [i \in 1..Len(keys) |->
           [year |-> keys[i] \div 12,
            month |-> (keys[i] % 12) + 1,
            registrations |-> count_users(users, {t \in kept : period_of(t) = keys[i]})]]

\* Variant: each value is the sum of the values before it.
cumsum_exclusive(xs) == [i \in 1..Len(xs) |-> SumSeq(SubSeq(xs, 1, i - 1))]

\* Series.cumsum()
cumsum(xs) == [i \in 1..Len(xs) |-> SumSeq(SubSeq(xs, 1, i))]

\* sort_values('date'): ascending, rows with equal dates in frame order.
RECURSIVE insert_by_date(_, _)
insert_by_date(row, rows) ==
    IF rows = <<>> THEN <<row>>
    ELSE IF row.date < rows[Len(rows)].date
         THEN insert_by_date(row, SubSeq(rows, 1, Len(rows) - 1)) \o <<rows[Len(rows)]>>
         ELSE rows \o <<row>>

RECURSIVE sort_values_date(_)
sort_values_date(rows) ==
    IF rows = <<>> THEN <<>>
    ELSE insert_by_date(rows[Len(rows)], sort_values_date(SubSeq(rows, 1, Len(rows) - 1)))

\* The Trends page's frame: date = first day of the period, rows sorted by
\* date, cumulative_users = registrations.cumsum().
growth_frame_of(growth_data) ==
    LET dated == [i \in 1..Len(growth_data) |->
                    [year |-> growth_data[i].year, month |-> growth_data[i].month,
                     registrations |-> growth_data[i].registrations,
                     date |-> DaysFromCivil(growth_data[i].year, growth_data[i].month, 1)]]
        sorted == sort_values_date(dated)
        cumulative == cumsum([i \in 1..Len(sorted) |-> sorted[i].registrations])
    IN  [i \in 1..Len(sorted) |->
           [year |-> sorted[i].year, month |-> sorted[i].month,
            registrations |-> sorted[i].registrations, date |-> sorted[i].date,
            cumulative_users |-> cumulative[i]]]

\* The users table: the instants of a subset of RegistrationDates, none in
\* the future, each with one user or with a batch of users.
InitTrends ==
    /\ \E now \in Clock, batch \in {1, MaxBatch} :
         \E S \in SUBSET {t \in RegistrationDates : to_datetime(t) <= to_datetime(now)} :
            dashboard = [pc |-> "trends", now |-> now, users |-> [t \in S |-> batch],
                         growth_data |-> None, user_growth |-> None]
    /\ course_completion = Idle
    /\ student_performance = Idle
    /\ mentor_effectiveness = Idle
    /\ app = Idle

\* main(), page "Trends": nothing is drawn for an empty frame.
trends_page ==
    /\ dashboard.pc = "trends"
    /\ LET growth_data == monthly_registrations(dashboard.users, dashboard.now)
       IN  dashboard' =
             [dashboard EXCEPT
                !.growth_data = DataFrame(IF growth_data = <<>> THEN <<>>
                                          ELSE growth_frame_of(growth_data))]
    /\ UNCHANGED <<course_completion, student_performance, mentor_effectiveness, app>>

\* GET /analytics/user-growth: the same query, returned as JSON.
get_user_growth ==
    /\ dashboard.pc = "trends"
    /\ dashboard' =
         [dashboard EXCEPT
            !.user_growth = DataFrame(monthly_registrations(dashboard.users, dashboard.now))]
    /\ UNCHANGED <<course_completion, student_performance, mentor_effectiveness, app>>

NextTrends ==
    \/ trends_page
    \/ get_user_growth

SpecTrends == InitTrends /\ [][NextTrends]_vars

(***************************************************************************)
(* Properties of the registration trend                                    *)
(***************************************************************************)
TrendsActive == dashboard.pc = "trends"
TrendsLoaded == TrendsActive /\ dashboard.growth_data # None
GrowthReturned == TrendsActive /\ dashboard.user_growth # None

\* The months of a series follow each other without a gap.
NoMonthOmitted(series) ==
    \A i \in 1..(Len(series) - 1) :
       series[i + 1].year * 12 + series[i + 1].month
         = series[i].year * 12 + series[i].month + 1

\* The table holds 5 users registered in January 2024, none in February and
\* 10 in March, and nobody else.
JanFebMarScenario ==
    /\ DOMAIN dashboard.users =
         {Timestamp(2024, 1, 28, 9), Timestamp(2024, 3, 5, 9), Timestamp(2024, 3, 20, 9)}
    /\ \A t \in DOMAIN dashboard.users : dashboard.users[t] = 5

\* C11: the monthly series has a bucket for every calendar month of the
\* window, with count 0 for a month without registrations; for Jan 5,
\* Feb 0, Mar 10 it has three buckets and the cumulative series is [5,5,15].
C11_EveryMonthHasBucket ==
    /\ TrendsLoaded =>
         /\ NoMonthOmitted(dashboard.growth_data.data)
         /\ JanFebMarScenario =>
              [i \in 1..Len(dashboard.growth_data.data) |->
                 dashboard.growth_data.data[i].cumulative_users] = <<5, 5, 15>>
    /\ GrowthReturned =>
         /\ NoMonthOmitted(dashboard.user_growth.data)
         /\ JanFebMarScenario => Len(dashboard.user_growth.data) = 3

\* The users of the table whose created_at is not older than 365 days.
PassingInstants ==
    {t \in DOMAIN dashboard.users :
       to_datetime(dashboard.now) - to_datetime(t) <= 365 * 24}

\* The buckets of a series are the (year, month) periods of the passing
\* users, each once and in ascending order, each with the count of its users.
BucketsOfPassing(series) ==
    /\ SumSeq([i \in 1..Len(series) |-> series[i].registrations])
         = count_users(dashboard.users, PassingInstants)
    /\ \A i \in 1..(Len(series) - 1) :
          \/ series[i].year < series[i + 1].year
          \/ series[i].year = series[i + 1].year /\ series[i].month < series[i + 1].month
    /\ \A i \in 1..Len(series) :
          series[i].registrations =
            count_users(dashboard.users,
                        {t \in PassingInstants :
                           t.year = series[i].year /\ t.month = series[i].month})

\* C12: the monthly bucket counts sum to the number of registration
\* timestamps that pass the window filter, each (year, month) period appears
\* once and in ascending date order, and the cumulative series is
\* non-decreasing with final value equal to that total.
C12_BucketsSumToTotal ==
    /\ GrowthReturned => BucketsOfPassing(dashboard.user_growth.data)
    /\ TrendsLoaded =>
         LET frame == dashboard.growth_data.data
         IN  /\ BucketsOfPassing(frame)
             /\ \A i \in 1..(Len(frame) - 1) :
                   frame[i].cumulative_users <= frame[i + 1].cumulative_users
             /\ frame # <<>> =>
                  frame[Len(frame)].cumulative_users
                    = count_users(dashboard.users, PassingInstants)

\* The page shows at least three months, one of them holding two batches of
\* five users, while a user older than the window is left out.
C12_Witness ==
    /\ TrendsLoaded
    /\ Len(dashboard.growth_data.data) >= 3
    /\ PassingInstants # DOMAIN dashboard.users
    /\ \E i \in 1..Len(dashboard.growth_data.data) :
          dashboard.growth_data.data[i].registrations = 10
    /\ dashboard.growth_data.data[Len(dashboard.growth_data.data)].cumulative_users >= 15

\* C13: the series covers a trailing 12-month window: at most 12 distinct
\* (year, month) buckets are returned.
C13_AtMostTwelveBuckets ==
    /\ TrendsLoaded => Len(dashboard.growth_data.data) <= 12
    /\ GrowthReturned => Len(dashboard.user_growth.data) <= 12

(***************************************************************************)
(* Properties of the leaderboards                                          *)
(***************************************************************************)
StudentsRanked ==
    /\ student_performance.pc # "not_run"
    /\ student_performance.top_students # None

\* The graded submissions of student s in the snapshot.
GradedOf(s) ==
    Cardinality({i \in 1..Len(student_performance.df.rows) :
                   /\ student_performance.df.rows[i].student_id = s
                   /\ IsNum(student_performance.df.rows[i].grade)})

\* C14: the top performers are students with at least 3 graded submissions,
\* ordered by mean grade descending, at most 5 of them; a student with fewer
\* graded submissions never is among them.
C14_TopPerformers ==
    StudentsRanked =>
      LET top   == student_performance.top_students.values
          table == student_performance.student_performance.data
      IN  /\ Len(top) <= 5
          /\ \A i \in 1..Len(top) : GradedOf(top[i]) >= 3
          /\ \A i \in 1..(Len(top) - 1) :
                table[top[i]].avg_grade >= table[top[i + 1]].avg_grade
          /\ \A i \in 1..Len(top), j \in 1..Len(top) : i # j => top[i] # top[j]
          \* nobody left out has three submissions and a better mean than
          \* somebody listed, and the list is full unless nobody is left out
          /\ \A s \in DOMAIN table :
                (GradedOf(s) >= 3 /\ \A i \in 1..Len(top) : top[i] # s) =>
                   /\ Len(top) = 5
                   /\ \A i \in 1..Len(top) : table[top[i]].avg_grade >= table[s].avg_grade

\* Six students have three submissions, so one of them is cut from the
\* list, and a student with two submissions has a mean above a listed one.
C14_Witness ==
    /\ StudentsRanked
    /\ Len(student_performance.top_students.values) = 5
    /\ Cardinality({s \in DOMAIN student_performance.student_performance.data :
                      GradedOf(s) >= 3}) > 5
    /\ \E s \in DOMAIN student_performance.student_performance.data :
          /\ GradedOf(s) < 3
          /\ \E i \in 1..5 :
                student_performance.student_performance.data[s].avg_grade
                  > student_performance.student_performance.data[
                       student_performance.top_students.values[i]].avg_grade

MentorsRanked ==
    /\ MentorSummaryReady
    /\ mentor_effectiveness.rankings # None

\* board lists mentors of the summary, each once, by column c descending
\* (a mentor without a value after those with one).
DescendingBy(board, summary, c) ==
    /\ \A i \in 1..Len(board) : board[i] \in DOMAIN summary
    /\ \A i \in 1..Len(board), j \in 1..Len(board) : i # j => board[i] # board[j]
    /\ \A i \in 1..(Len(board) - 1) :
          \/ ~IsNum(summary[board[i + 1]][c])
          \/ /\ IsNum(summary[board[i]][c])
             /\ summary[board[i]][c].v >= summary[board[i + 1]][c].v

\* C15: the completion-rate leaderboard lists only mentors with at least 5
\* enrolled students, the rating leaderboard only mentors with at least 3
\* reviews, each sorted descending by its metric after the threshold is
\* applied; the effectiveness leaderboard is sorted descending by
\* effectiveness_score.
C15_MentorLeaderboards ==
    MentorsRanked =>
      LET summary  == mentor_effectiveness.mentor_summary.data
          rankings == mentor_effectiveness.rankings.data
      IN  /\ DescendingBy(rankings.top_effective, summary, "effectiveness_score")
          /\ Len(rankings.top_effective) = Cardinality(DOMAIN summary)
          /\ DescendingBy(rankings.top_completion, summary, "completion_rate")
          /\ \A i \in 1..Len(rankings.top_completion) :
                summary[rankings.top_completion[i]].enrolled_students >= 5
          /\ Len(rankings.top_completion) =
               Cardinality({m \in DOMAIN summary : summary[m].enrolled_students >= 5})
          /\ DescendingBy(rankings.top_rated, summary, "avg_course_rating")
          /\ \A i \in 1..Len(rankings.top_rated) :
                summary[rankings.top_rated[i]].total_reviews >= 3
          /\ Len(rankings.top_rated) =
               Cardinality({m \in DOMAIN summary : summary[m].total_reviews >= 3})

\* Two mentors are ranked; the one with 2 students and 2 reviews has the
\* higher completion rate and rating and heads the effectiveness leaderboard,
\* yet only the other one is on the completion and rating leaderboards.
C15_Witness ==
    /\ MentorsRanked
    /\ \E a \in DOMAIN mentor_effectiveness.mentor_summary.data,
          b \in DOMAIN mentor_effectiveness.mentor_summary.data :
          LET summary  == mentor_effectiveness.mentor_summary.data
              rankings == mentor_effectiveness.rankings.data
          IN  /\ a < b
              /\ summary[b].enrolled_students < 5
              /\ summary[b].total_reviews < 3
              /\ IsNum(summary[a].completion_rate) /\ IsNum(summary[b].completion_rate)
              /\ summary[b].completion_rate.v > summary[a].completion_rate.v
              /\ IsNum(summary[a].avg_course_rating) /\ IsNum(summary[b].avg_course_rating)
              /\ summary[b].avg_course_rating.v > summary[a].avg_course_rating.v
              /\ rankings.top_effective = <<b, a>>
              /\ rankings.top_completion = <<a>>
              /\ rankings.top_rated = <<a>>

(***************************************************************************)
(* app/routes/api.py, auth.py and admin.py on the models User, Enrollment, *)
(* Submission, CourseReview and AnalyticsEvent                             *)
(***************************************************************************)
\* Assignment.max_points, the column's default.
max_points_default == 100

\* Course.enrollment_limit of course 1.
enrollment_limit == 2

\* Users 1..4 are students, 5 is the mentor of course 1, 6 another mentor,
\* 7 an admin.  Both mentors are approved.
AppUsers == 1..7
role(u) == IF u <= 4 THEN "student" ELSE IF u <= 6 THEN "mentor" ELSE "admin"
course_mentor_id == 5

\* The assignments table: assignments 1 and 2 of course 1.  Assignment 1
\* is due at instant 10, assignment 2 has no due date.
assignments ==
    [a \in {1, 2} |-> [course_id |-> 1, max_points |-> max_points_default,
                       due_date |-> IF a = 1 THEN Num(10) ELSE None]]

\* datetime.utcnow() when a request is served: before and after instant 10.
utcnow == {5, 15}

\* Course.modules: course 1 has the modules 1 and 2, course 2 the module 3.
course_modules == [c \in {1, 2} |-> IF c = 1 THEN {1, 2} ELSE {3}]

\* JSON values of a request body.
JsonInt(v) == [k |-> "int", v |-> v]
JsonStr(v) == [k |-> "str", v |-> v]
JsonBool(v) == [k |-> "bool", v |-> v]

\* Python truthiness of a JSON value.
truthy(x) ==
    CASE x = None -> FALSE
      [] x.k = "int" -> x.v # 0
      [] x.k = "num" -> x.v # 0
      [] x.k = "str" -> x.v # ""
      [] x.k = "bool" -> x.v

\* isinstance(x, int): bool is a subclass of int.
isinstance_int(x) == x # None /\ x.k \in {"int", "bool"}

\* The integer a JSON int or bool is compared and stored as.
int_value(x) == IF x.k = "bool" THEN (IF x.v THEN 1 ELSE 0) ELSE x.v

\* The grades, module ids and ratings requests carry.
GradeInputs == {None, Num(0 - 5), Num(0), Num(100), Num(150)}
RatingInputs == {None, JsonInt(0), JsonInt(1), JsonInt(2), JsonInt(5), JsonInt(6), JsonStr("5"), JsonBool(TRUE)}

\* role_required(roles): the response of the decorator, 0 when it lets the
\* request through.
role_required(roles, current_user_id, is_active) ==
    IF ~is_active[current_user_id] THEN 401
    ELSE IF role(current_user_id) \notin roles THEN 403
    ELSE 0

\* AnalyticsEvent.log_event: the event is added to the session; nothing is
\* committed.
log_event(session, user_id, event_type) ==
    session \cup {[user_id |-> user_id, event_type |-> event_type]}

\* db.session.commit(): the events the session holds are stored.
commit_events(events, session) == events \cup session

\* An enrollment row; progress_data maps the module ids seen so far to
\* their completed flag, completion_percentage is in hundredths.
Enrollment(student_id, course_id, progress_data, completion_percentage, is_completed) ==
    [student_id |-> student_id, course_id |-> course_id, progress_data |-> progress_data,
     completion_percentage |-> completion_percentage, is_completed |-> is_completed]

NoProgress == [m \in {} |-> FALSE]
NewEnrollment(student_id, course_id) == Enrollment(student_id, course_id, NoProgress, 0, FALSE)
CompletedEnrollment(student_id) ==
    Enrollment(student_id, 1, [m \in course_modules[1] |-> TRUE], 10000, TRUE)

\* Course.get_enrolled_students_count: the enrollments of active students.
get_enrolled_students_count(enrollments, is_active) ==
    Cardinality({e \in DOMAIN enrollments : is_active[enrollments[e].student_id]})

\* Course.is_enrollment_open, for an active course.
is_enrollment_open(enrollments, is_active) ==
    IF enrollment_limit # 0
    THEN get_enrolled_students_count(enrollments, is_active) < enrollment_limit
    ELSE TRUE

\* self.assignment inside Submission.__init__: the relationship of an
\* object that is in no session yet is not loaded from assignment_id, the
\* attribute is None.
transient_assignment(assignment_id) == None

\* Submission.__init__ followed by the insert: is_late is assigned only
\* when self.assignment has a due date, else the column default False is
\* stored; submitted_at defaults to the time of the insert.
Submission(assignment_id, student_id, now) ==
    LET self_assignment == transient_assignment(assignment_id)
    IN  [assignment_id |-> assignment_id, student_id |-> student_id,
         grade |-> None, graded_by |-> None, submitted_at |-> now,
         is_late |-> IF self_assignment # None /\ self_assignment.due_date # None
                     THEN now > self_assignment.due_date.v
                     ELSE FALSE]

\* Submission.submit_grade: the grade is stored as given.
submit_grade(submission, grade, graded_by) ==
    [submission EXCEPT !.grade = grade, !.graded_by = graded_by]

\* Enrollment.update_progress on the loaded row: every key of progress_data
\* with a true flag counts as a completed module, and is_completed is set,
\* never cleared.
Enrollment_update_progress(enrollment, module_id, completed) ==
    LET progress_data ==
          [m \in DOMAIN enrollment.progress_data \cup {module_id} |->
             IF m = module_id THEN completed ELSE enrollment.progress_data[m]]
        total_modules == Cardinality(course_modules[enrollment.course_id])
        completed_modules == Cardinality({m \in DOMAIN progress_data : progress_data[m]})
    IN  IF total_modules > 0
        THEN [enrollment EXCEPT
                !.progress_data = progress_data,
                !.completion_percentage = Round2(completed_modules * 100, total_modules),
                !.is_completed = @ \/ completed_modules = total_modules]
        ELSE [enrollment EXCEPT !.progress_data = progress_data]

\* db.session.commit() of update_progress: the columns that were assigned
\* are written.  progress_data is a plain JSON column: it is assigned only
\* when the loaded value was empty (self.progress_data = {}); a key set
\* inside a loaded dict is not seen by the session and is not written.
commit_progress(loaded, enrollment) ==
    [enrollment EXCEPT
       !.progress_data = IF DOMAIN loaded.progress_data = {}
                         THEN enrollment.progress_data
                         ELSE loaded.progress_data]

\* Variant: the mean is cut after two decimals.
get_average_rating_floor(reviews) ==
    IF Len(reviews) = 0 THEN 0
    ELSE (SumSeq([i \in 1..Len(reviews) |-> reviews[i].rating]) * 100) \div Len(reviews)

\* Course.get_average_rating, in hundredths: 0.0 without reviews, else
\* round(total_rating / len(reviews), 2).
get_average_rating(reviews) ==
    IF Len(reviews) = 0 THEN 0
    ELSE Round2(SumSeq([i \in 1..Len(reviews) |-> reviews[i].rating]), Len(reviews))

\* Variant: an enrollment is enough to review, completed or not.
may_review_enrolled(enrollments, student_id) ==
    \E e \in DOMAIN enrollments : enrollments[e].student_id = student_id

\* submit_review: the caller's enrollment in the course exists and is
\* completed.
may_review(enrollments, student_id) ==
    \E e \in DOMAIN enrollments :
       /\ enrollments[e].student_id = student_id
       /\ enrollments[e].is_completed

\* submit_review: the rating of the caller's review is replaced, or a review
\* is created when the caller has none.
save_review(reviews, student_id, rating) ==
    IF \E i \in 1..Len(reviews) : reviews[i].student_id = student_id
    THEN LET first == CHOOSE i \in 1..Len(reviews) :
                         /\ reviews[i].student_id = student_id
                         /\ \A j \in 1..(i - 1) : reviews[j].student_id # student_id
         IN  [reviews EXCEPT ![first].rating = rating]
    ELSE Append(reviews, [student_id |-> student_id, rating |-> rating])

NoRows == <<>>

\* The database when the requests of a scenario arrive.  Grading: two
\* ungraded submissions of assignment 1.  Progress: student 1 has just
\* enrolled in course 1, student 2 in course 2.  Reviews: students 1..3
\* completed course 1, student 4 did not.  Enrolling: nobody is enrolled in
\* course 1.  Submitting: students 1 and 2 are enrolled in course 1.
\* events holds the committed analytics events, uncommitted what the last
\* request left in its session when it returned, enrolling the students
\* whose enroll_course request has passed its checks and not yet inserted.
InitApp ==
    /\ \E scenario \in {"grading", "progress", "reviews", "enrolling", "submitting"} :
          app = [pc |-> scenario,
                 is_active |-> [u \in AppUsers |-> TRUE],
                 submissions |->
                   IF scenario = "grading"
                   THEN <<Submission(1, 1, 5), Submission(1, 2, 5)>>
                   ELSE NoRows,
                 enrollments |->
                   CASE scenario = "progress" -> <<NewEnrollment(1, 1), NewEnrollment(2, 2)>>
                     [] scenario = "reviews" ->
                          <<CompletedEnrollment(1), CompletedEnrollment(2),
                            CompletedEnrollment(3), NewEnrollment(4, 1)>>
                     [] scenario = "submitting" -> <<NewEnrollment(1, 1), NewEnrollment(2, 1)>>
                     [] OTHER -> NoRows,
                 reviews |-> NoRows,
                 events |-> {},
                 uncommitted |-> {},
                 enrolling |-> {},
                 response |-> 0]
    /\ course_completion = Idle
    /\ student_performance = Idle
    /\ mentor_effectiveness = Idle
    /\ dashboard = Idle

\* A response without a change of the stored data.
Respond(status) == [app EXCEPT !.response = status, !.uncommitted = {}]

\* POST /assignments/<assignment_id>/grade
grade_submission ==
    /\ app.pc = "grading"
    /\ \E current_user_id \in AppUsers, assignment_id \in {1, 2},
          submission_id \in 0..3, grade \in GradeInputs :
          app' =
            IF role(current_user_id) \notin {"mentor", "admin"}
            THEN Respond(403)
            ELSE IF submission_id = 0 \/ grade = None
            THEN Respond(400)
            ELSE IF \/ submission_id \notin DOMAIN app.submissions
                    \/ app.submissions[submission_id].assignment_id # assignment_id
            THEN Respond(404)
            ELSE IF /\ role(current_user_id) = "mentor"
                    /\ course_mentor_id # current_user_id
            THEN Respond(403)
            ELSE [app EXCEPT
                    !.submissions[submission_id] = submit_grade(@, grade, current_user_id),
                    !.uncommitted = {},
                    !.response = 200]
    /\ UNCHANGED <<course_completion, student_performance, mentor_effectiveness, dashboard>>

\* PUT /enrollments/<enrollment_id>/progress
update_progress ==
    /\ app.pc = "progress"
    /\ \E current_user_id \in {1, 2}, enrollment_id \in {1, 2, 3},
          module_id \in 0..MaxModuleId, completed \in BOOLEAN :
          app' =
            IF enrollment_id \notin DOMAIN app.enrollments
            THEN Respond(404)
            ELSE IF app.enrollments[enrollment_id].student_id # current_user_id
            THEN Respond(403)
            ELSE IF module_id = 0
            THEN Respond(400)
            ELSE [app EXCEPT
                    !.enrollments[enrollment_id] =
                       commit_progress(@, Enrollment_update_progress(@, module_id, completed)),
                    !.uncommitted = {},
                    !.response = 200]
    /\ UNCHANGED <<course_completion, student_performance, mentor_effectiveness, dashboard>>

\* POST /courses/<course_id>/review, for course 1.  A JSON true passes the
\* isinstance check; the integer column takes it as 1 or the insert fails,
\* as the database decides.
submit_review ==
    /\ app.pc = "reviews"
    /\ \E current_user_id \in AppUsers, rating \in RatingInputs, bool_is_integer \in BOOLEAN :
          app' =
            IF role_required({"student"}, current_user_id, app.is_active) # 0
            THEN Respond(role_required({"student"}, current_user_id, app.is_active))
            ELSE IF ~may_review(app.enrollments, current_user_id)
            THEN Respond(403)
            ELSE IF \/ ~truthy(rating)
                    \/ ~isinstance_int(rating)
                    \/ int_value(rating) < 1
                    \/ int_value(rating) > 5
            THEN Respond(400)
            ELSE IF rating.k = "bool" /\ ~bool_is_integer
            THEN Respond(500)
            ELSE [app EXCEPT
                    !.reviews = save_review(@, current_user_id, int_value(rating)),
                    !.uncommitted = {},
                    !.response =
                       IF \E i \in 1..Len(app.reviews) :
                             app.reviews[i].student_id = current_user_id
                       THEN 200 ELSE 201]
    /\ UNCHANGED <<course_completion, student_performance, mentor_effectiveness, dashboard>>

\* POST /courses/<course_id>/enroll, for course 1, up to the check of the
\* enrollment limit: the decorator, the caller's existing enrollment and
\* is_enrollment_open are read; a request that passes goes on to insert.
enroll_course_check ==
    /\ app.pc = "enrolling"
    /\ \E current_user_id \in (1..5) \ app.enrolling :
          app' =
            IF role_required({"student"}, current_user_id, app.is_active) # 0
            THEN Respond(role_required({"student"}, current_user_id, app.is_active))
            ELSE IF \E e \in DOMAIN app.enrollments :
                       app.enrollments[e].student_id = current_user_id
            THEN Respond(409)
            ELSE IF ~is_enrollment_open(app.enrollments, app.is_active)
            THEN Respond(400)
            ELSE [app EXCEPT !.enrolling = @ \cup {current_user_id}]
    /\ UNCHANGED <<course_completion, student_performance, mentor_effectiveness, dashboard>>

\* enroll_course, from the insert on: the enrollment is added and
\* committed, then the event is logged and the request returns.
enroll_course_insert ==
    /\ app.pc = "enrolling"
    /\ \E current_user_id \in app.enrolling :
          app' = [app EXCEPT
                    !.enrolling = @ \ {current_user_id},
                    !.enrollments = Append(@, NewEnrollment(current_user_id, 1)),
                    !.events = commit_events(@, {}),
                    !.uncommitted = log_event({}, current_user_id, "course_enrolled"),
                    !.response = 201]
    /\ UNCHANGED <<course_completion, student_performance, mentor_effectiveness, dashboard>>

\* POST /assignments/<assignment_id>/submit.  A second submission of the
\* same assignment by the same student breaks unique_assignment_student.
submit_assignment ==
    /\ app.pc = "submitting"
    /\ \E current_user_id \in {1, 2, 3, 5}, assignment_id \in 1..3, now \in utcnow :
          app' =
            IF role_required({"student"}, current_user_id, app.is_active) # 0
            THEN Respond(role_required({"student"}, current_user_id, app.is_active))
            ELSE IF assignment_id \notin DOMAIN assignments
            THEN Respond(404)
            ELSE IF \A e \in DOMAIN app.enrollments :
                       \/ app.enrollments[e].student_id # current_user_id
                       \/ app.enrollments[e].course_id # assignments[assignment_id].course_id
            THEN Respond(403)
            ELSE IF \E s \in DOMAIN app.submissions :
                       /\ app.submissions[s].assignment_id = assignment_id
                       /\ app.submissions[s].student_id = current_user_id
            THEN Respond(500)
            ELSE [app EXCEPT
                    !.submissions = Append(@, Submission(assignment_id, current_user_id, now)),
                    !.events = commit_events(@, {}),
                    !.uncommitted = log_event({}, current_user_id, "assignment_submitted"),
                    !.response = 201]
    /\ UNCHANGED <<course_completion, student_performance, mentor_effectiveness, dashboard>>

\* PUT /users/<user_id>/status, called by the admin.
update_user_status ==
    /\ app.pc # "not_run"
    /\ \E user_id \in {1, 5, 7}, new_status \in {None, JsonBool(TRUE), JsonBool(FALSE)} :
          app' =
            IF role(user_id) = "admin" \/ new_status = None
            THEN Respond(400)
            ELSE [app EXCEPT
                    !.is_active[user_id] = new_status.v,
                    !.events = commit_events(@, {}),
                    !.uncommitted = log_event({}, user_id, "user_status_changed"),
                    !.response = 200]
    /\ UNCHANGED <<course_completion, student_performance, mentor_effectiveness, dashboard>>

\* POST /login with the right password: the event is logged and the
\* request returns without a commit.
login ==
    /\ app.pc # "not_run"
    /\ \E user_id \in {1, 5} :
          app' =
            IF ~app.is_active[user_id]
            THEN Respond(401)
            ELSE [app EXCEPT
                    !.uncommitted = log_event({}, user_id, "user_login"),
                    !.response = 200]
    /\ UNCHANGED <<course_completion, student_performance, mentor_effectiveness, dashboard>>

NextApp ==
    \/ grade_submission
    \/ update_progress
    \/ submit_review
    \/ enroll_course_check
    \/ enroll_course_insert
    \/ submit_assignment
    \/ update_user_status
    \/ login

SpecApp == InitApp /\ [][NextApp]_vars

(***************************************************************************)
(* Properties of the application's stored values                           *)
(***************************************************************************)
AppServing == app.pc # "not_run"

\* C16: every submission with a grade has 0 <= grade <= max_points of its
\* assignment: a request with a grade outside that range is rejected and
\* leaves the submission as it was.
C16_GradeWithinMaxPoints ==
    AppServing =>
      \A s \in DOMAIN app.submissions :
         app.submissions[s].grade # None =>
           /\ app.submissions[s].grade.v >= 0
           /\ app.submissions[s].grade.v
                <= assignments[app.submissions[s].assignment_id].max_points

\* C17: after any sequence of update_progress requests,
\* completion_percentage lies in [0,100].
C17_CompletionPercentageRange ==
    AppServing =>
      \A e \in DOMAIN app.enrollments :
         /\ app.enrollments[e].completion_percentage >= 0
         /\ app.enrollments[e].completion_percentage <= 10000

\* The sum and the number of the ratings stored for course 1.
RatingTotal == SumSeq([i \in 1..Len(app.reviews) |-> app.reviews[i].rating])
RatingCount == Len(app.reviews)

\* The ratings stored are integers in 1..5 and the average is in [1,5], or
\* 0 without reviews.
RatingsInRange ==
    /\ \A i \in 1..Len(app.reviews) : app.reviews[i].rating \in 1..5
    /\ RatingCount = 0 => get_average_rating(app.reviews) = 0
    /\ RatingCount > 0 =>
         /\ get_average_rating(app.reviews) >= 100
         /\ get_average_rating(app.reviews) <= 500

\* C18 as stated: get_average_rating() is 0 without reviews and otherwise
\* equals the arithmetic mean of the ratings, which lies in [1,5].
C18_AverageIsExactMean ==
    AppServing =>
      /\ RatingsInRange
      /\ RatingCount > 0 =>
           get_average_rating(app.reviews) * RatingCount = 100 * RatingTotal

\* C18, amended: get_average_rating() is 0 without reviews and otherwise
\* the arithmetic mean of the ratings rounded to 2 decimals, which lies in
\* [1,5] because every stored rating is an integer in 1..5.
C18_AverageIsRoundedMean ==
    AppServing =>
      /\ RatingsInRange
      /\ RatingCount > 0 =>
           LET gap == get_average_rating(app.reviews) * RatingCount - 100 * RatingTotal
           IN  2 * gap <= RatingCount /\ 0 - 2 * gap <= RatingCount

\* Three students reviewed the course with 2, 2 and 1: the mean 1.666...
\* is reported as 1.67.
C18_Witness ==
    /\ AppServing
    /\ RatingCount = 3
    /\ RatingTotal = 5
    /\ get_average_rating(app.reviews) = 167

\* Every module of the enrollment's course is marked completed in
\* progress_data.
AllModulesCompleted(enrollment) ==
    \A m \in course_modules[enrollment.course_id] :
       m \in DOMAIN enrollment.progress_data /\ enrollment.progress_data[m]

\* C24: after any sequence of update_progress calls, is_completed is true
\* exactly when every module of the course is marked completed in
\* progress_data, equivalently completion_percentage is 100.
C24_CompletedIffAllModulesDone ==
    (AppServing /\ app.pc = "progress") =>
      \A e \in DOMAIN app.enrollments :
         /\ app.enrollments[e].is_completed <=> AllModulesCompleted(app.enrollments[e])
         /\ app.enrollments[e].is_completed <=>
              app.enrollments[e].completion_percentage = 10000

\* C25: the number of enrollments in course 1 never exceeds its
\* enrollment_limit, whatever the interleaving of enroll_course requests
\* of distinct students and of activations and deactivations by the admin.
C25_EnrollmentLimit ==
    (AppServing /\ app.pc = "enrolling") =>
      Len(app.enrollments) <= enrollment_limit

\* C27: a request of a deactivated user changes no stored data: a step that
\* changes an enrollment, grades a submission, or adds a submission or a
\* review, is made for a user whose account is active.
C27_DeactivatedUserChangesNothing ==
    [][ AppServing =>
          /\ \A e \in DOMAIN app.enrollments :
                app'.enrollments[e] # app.enrollments[e] =>
                  app.is_active[app.enrollments[e].student_id]
          /\ \A s \in DOMAIN app.submissions :
                app'.submissions[s] # app.submissions[s] =>
                  app.is_active[app'.submissions[s].graded_by]
          /\ \A s \in DOMAIN app'.submissions \ DOMAIN app.submissions :
                app.is_active[app'.submissions[s].student_id]
          /\ \A i \in 1..Len(app'.reviews) :
                (i > Len(app.reviews) \/ app'.reviews[i] # app.reviews[i]) =>
                  app.is_active[app'.reviews[i].student_id]
      ]_vars

\* C28: after a request that logs an analytics event has succeeded, the
\* event is committed: no request leaves an event uncommitted, and every
\* enrollment and submission made through the API has its event stored.
C28_LoggedEventsCommitted ==
    AppServing =>
      /\ app.uncommitted = {}
      /\ app.pc = "enrolling" =>
           \A e \in DOMAIN app.enrollments :
              [user_id |-> app.enrollments[e].student_id,
               event_type |-> "course_enrolled"] \in app.events
      /\ app.pc = "submitting" =>
           \A s \in DOMAIN app.submissions :
              [user_id |-> app.submissions[s].student_id,
               event_type |-> "assignment_submitted"] \in app.events

\* C29: a submission made through submit_assignment has is_late true
\* exactly when it was made after the due date of its assignment; without
\* a due date it is never late.
C29_LateIffAfterDueDate ==
    (AppServing /\ app.pc = "submitting") =>
      \A s \in DOMAIN app.submissions :
         LET due_date == assignments[app.submissions[s].assignment_id].due_date
         IN  app.submissions[s].is_late <=>
               (due_date # None /\ app.submissions[s].submitted_at > due_date.v)

\* The student has an enrollment in course 1 that is completed.
HasCompleted(student_id) ==
    \E e \in DOMAIN app.enrollments :
       /\ app.enrollments[e].student_id = student_id
       /\ app.enrollments[e].course_id = 1
       /\ app.enrollments[e].is_completed

\* C30: submit_review creates or changes a review only for a caller with a
\* completed enrollment and with an integer rating in 1..5, and leaves the
\* reviews unchanged in every other case; an accepted review of a student
\* who has one replaces its rating, so that there is at most one review per
\* student of the course.
C30_ReviewOnlyWhenEntitled ==
    [][ app.pc = "reviews" =>
          LET before == app.reviews
              after  == app'.reviews
          IN  /\ \A i \in 1..Len(after) :
                    /\ HasCompleted(after[i].student_id)
                    /\ after[i].rating \in 1..5
              /\ \A i \in 1..Len(after), j \in 1..Len(after) :
                    after[i].student_id = after[j].student_id => i = j
              /\ app'.response \notin {200, 201} => after = before
              /\ after # before =>
                    \E student_id \in AppUsers, rating \in 1..5 :
                       /\ app.is_active[student_id]
                       /\ role(student_id) = "student"
                       /\ HasCompleted(student_id)
                       /\ IF \E i \in 1..Len(before) : before[i].student_id = student_id
                          THEN /\ app'.response = 200
                               /\ Len(after) = Len(before)
                               /\ \A i \in 1..Len(before) :
                                     after[i] =
                                       IF before[i].student_id = student_id
                                       THEN [student_id |-> student_id, rating |-> rating]
                                       ELSE before[i]
                          ELSE /\ app'.response = 201
                               /\ after = Append(before,
                                                 [student_id |-> student_id, rating |-> rating])
      ]_vars

\* Students 1 and 2 reviewed the course, and the last request replaced the
\* rating of a review that existed.
C30_Witness ==
    /\ app.pc = "reviews"
    /\ Len(app.reviews) = 2
    /\ app.response = 200
    /\ app.uncommitted = {}
    /\ \E i \in 1..2 : app.reviews[i].rating = 5

(***************************************************************************)
(* Properties of the scripts' use of their snapshot                        *)
(***************************************************************************)
\* Spec of two scripts, each run on its own snapshot.
InitScripts == InitPerformance \/ InitMentorScript
NextScripts == NextPerformance \/ NextMentorScript
SpecScripts == InitScripts /\ [][NextScripts]_vars

PerformanceScriptRan == student_performance.pc # "not_run"

\* C19: no calculator mutates the input snapshot: after any analysis
\* function returns, the frame passed in has the same rows and the same
\* columns as when it was fetched.
C19_SnapshotNotMutated ==
    PerformanceScriptRan =>
      /\ student_performance.df.columns = PerformanceColumns
      /\ student_performance.df.rows = student_performance.snapshot

\* The frame as main() leaves it for the steps after
\* analyze_performance_trends.
FrameAfterTrends ==
    with_enrollment_month([columns |-> PerformanceColumns,
                           rows |-> student_performance.snapshot])

\* C20: the calculators of one script are independent: called on the same
\* snapshot in any order, each returns what it returns in the sequential
\* order of main().
C20_OrderIndependent ==
    /\ PerformanceScriptRan =>
         LET snapshot == student_performance.snapshot
         IN  /\ student_performance.graded_df # None =>
                  /\ student_performance.graded_df = DataFrame(dropna_grade(snapshot))
                  /\ student_performance.grade_dist =
                       DataFrame(value_counts(grade_ranges_of(dropna_grade(snapshot))))
             /\ student_performance.course_performance # None =>
                  student_performance.course_performance =
                    DataFrame(course_performance_of(snapshot))
             /\ student_performance.student_performance # None =>
                  /\ student_performance.student_performance =
                       DataFrame(student_performance_of(snapshot))
                  /\ student_performance.top_students =
                       Series(top_students_of(student_performance_of(snapshot)))
             /\ student_performance.monthly_performance # None =>
                  student_performance.monthly_performance =
                    DataFrame(monthly_performance_of(snapshot))
             /\ student_performance.report # None =>
                  student_performance.report =
                    DataFrame(performance_report_of(FrameAfterTrends.rows))
    /\ MentorScriptRan =>
         LET df == mentor_effectiveness.df
         IN  /\ mentor_effectiveness.mentor_summary # None =>
                  mentor_effectiveness.mentor_summary = DataFrame(mentor_summary_of(df))
             /\ mentor_effectiveness.rankings # None =>
                  mentor_effectiveness.rankings = DataFrame(rankings_of(mentor_summary_of(df)))
             /\ mentor_effectiveness.course_success # None =>
                  mentor_effectiveness.course_success = DataFrame(course_success_of(df))
             /\ mentor_effectiveness.workload_df # None =>
                  mentor_effectiveness.workload_df = DataFrame(workload_of(df))
             /\ mentor_effectiveness.report # None =>
                  mentor_effectiveness.report =
                    DataFrame(mentor_report_of(mentor_summary_of(df)))

(***************************************************************************)
(* Properties of a run of main() of the three analysis scripts             *)
(***************************************************************************)
\* Spec of the three scripts, each run on its own snapshot.
InitAnalytics == InitCompletion \/ InitPerformance \/ InitMentorScript
NextAnalytics == NextCompletion \/ NextPerformance \/ NextMentorScript
SpecAnalytics == InitAnalytics /\ [][NextAnalytics]_vars

\* The script was started as main(), not called function by function.
MainRun(script) == script.pc \notin {"not_run", "call"}

\* What the calculators and the report generator of each script returned.
CompletionOutputs ==
    <<course_completion.completion_rate, course_completion.time_to_completion,
      course_completion.report>>
PerformanceOutputs ==
    <<student_performance.graded_df, student_performance.grade_ranges,
      student_performance.grade_dist, student_performance.course_performance,
      student_performance.student_performance, student_performance.top_students,
      student_performance.monthly_performance, student_performance.report>>
MentorOutputs ==
    <<mentor_effectiveness.mentor_summary, mentor_effectiveness.rankings,
      mentor_effectiveness.course_success, mentor_effectiveness.workload_df,
      mentor_effectiveness.report>>

\* A run on an empty snapshot: main() is at its check or has returned, the
\* diagnostic is all it printed, nothing was computed and no file written.
ReturnedEarly(script, outputs) ==
    /\ script.pc \in {"main", "done"}
    /\ script.pc = "done" =>
         script.stdout = <<"No data found. Please check database connection and data.">>
    /\ \A i \in DOMAIN outputs : outputs[i] = None
    /\ script.files = <<>>

\* C21: when the input snapshot is empty, main() of each analysis script
\* prints a diagnostic and returns before running any calculator and
\* without writing the report file or the chart image.
C21_EmptySnapshotReturnsEarly ==
    /\ (MainRun(course_completion) /\ Len(course_completion.df) = 0) =>
         ReturnedEarly(course_completion, CompletionOutputs)
    /\ (MainRun(student_performance) /\ Len(student_performance.snapshot) = 0) =>
         ReturnedEarly(student_performance, PerformanceOutputs)
    /\ (MainRun(mentor_effectiveness) /\ Len(mentor_effectiveness.df) = 0) =>
         ReturnedEarly(mentor_effectiveness, MentorOutputs)

\* main() of the completion script has returned on an empty snapshot.
C21_Witness ==
    /\ course_completion.pc = "done"
    /\ Len(course_completion.df) = 0
    /\ course_completion.stdout # <<>>

NoDuplicates(files) ==
    \A i \in 1..Len(files), j \in 1..Len(files) : files[i] = files[j] => i = j

\* C22: in every run of main() each artifact is written at most once, and
\* once the first file of the run is written no step computes a metric: the
\* values returned by the calculators and the figures of the report stay as
\* they are.
C22_FileWritesAreTerminal ==
    [][ /\ MainRun(course_completion) =>
             /\ NoDuplicates(course_completion.files')
             /\ course_completion.files # <<>> => CompletionOutputs' = CompletionOutputs
        /\ MainRun(student_performance) =>
             /\ NoDuplicates(student_performance.files')
             /\ student_performance.files # <<>> => PerformanceOutputs' = PerformanceOutputs
        /\ MainRun(mentor_effectiveness) =>
             /\ NoDuplicates(mentor_effectiveness.files')
             /\ mentor_effectiveness.files # <<>> => MentorOutputs' = MentorOutputs
      ]_vars

\* The four statistics of a column of durations.
statistics_of(days) ==
    [mean |-> series_mean(days), median |-> series_median(days),
     min |-> series_min(days), max |-> series_max(days)]

\* C23: the [0,365]-day filter is idempotent: applied to the rows it kept,
\* it removes no further row and the statistics stay the ones that
\* analyze_time_to_completion reported.
C23_FilterIdempotent ==
    LET r    == course_completion.time_to_completion
        kept == time_filtered_rows(course_completion.df)
    IN  (r # None /\ r.returned # None) =>
          /\ r.returned.values = days_column(kept)
          /\ time_filtered_rows(kept) = kept
          /\ statistics_of(days_column(time_filtered_rows(kept))) = r.stats

\* The function has run on a snapshot of which the filter kept two rows and
\* dropped a completed one.
C23_Witness ==
    LET r == course_completion.time_to_completion
    IN  /\ r # None
        /\ r.returned # None
        /\ Len(r.returned.values) = 2
        /\ Len(completed_rows(course_completion.df)) = 3

\* C26: the three tier counts of generate_mentor_report sum to
\* total_mentors: every mentor of the summary, a mentor without reviews or
\* without graded submissions included, is counted in exactly one tier.
C26_TiersCoverAllMentors ==
    (MentorScriptRan /\ mentor_effectiveness.report # None) =>
      LET report == mentor_effectiveness.report.data
          tiers  == report.mentor_performance_distribution
      IN  tiers.high_performers + tiers.average_performers + tiers.needs_improvement
            = report.total_mentors

====
